---------------------------- MODULE SharingProofs ----------------------------
(***************************************************************************)
(* Proofs about what contexts share.  Buffer: the references to shared     *)
(* data are counted exactly whatever the threads that hold them do at the  *)
(* same time, and buffers that share data implement buffers with bytes of  *)
(* their own, for every number of buffers and of data.  Coroutine: the     *)
(* state of a call that yields, which all contexts of a worker share,      *)
(* never outlives the step that yields, for every number of callbacks and  *)
(* depth of the coroutines in them.  Messages: the data of a message that  *)
(* nobody holds any more has been released, for messages of every length.  *)
(***************************************************************************)
EXTENDS Buffer, Coroutine, Messages, FiniteSetTheorems, SequenceTheorems, WellFoundedInduction, TLAPS

-----------------------------------------------------------------------------
(* References and how many there are.                                      *)

\* How many entries of the table f, of buffer_t variables, are d.
Count(f, d) == Cardinality({r \in Ref : f[r] = d})

\* A count is a number, at most that of the buffers, and 0 when there are none.
LEMMA CountFacts ==
    ASSUME NEW f, NEW d
    PROVE  /\ IsFiniteSet({r \in Ref : f[r] = d})
           /\ Count(f, d) \in Nat
           /\ Cardinality(Ref) \in Nat /\ Count(f, d) <= Cardinality(Ref)
           /\ Count(f, d) = 0 <=> \A r \in Ref : f[r] # d
<1>. DEFINE S == {r \in Ref : f[r] = d}
<1>1. IsFiniteSet(Ref) BY BufferAssumption
<1>2. S \subseteq Ref OBVIOUS
<1>3. IsFiniteSet(S) /\ Cardinality(S) <= Cardinality(Ref)
  BY <1>1, <1>2, FS_Subset
<1>4. Cardinality(S) \in Nat /\ Cardinality(Ref) \in Nat
  BY <1>1, <1>3, FS_CardinalityType
<1>5. Cardinality(S) = 0 <=> S = {}
  BY <1>3, FS_EmptySet
<1>6. S = {} <=> \A r \in Ref : f[r] # d
  OBVIOUS
<1>. QED BY <1>3, <1>4, <1>5, <1>6 DEF Count

\* A change of one entry.
LEMMA CountChange ==
    ASSUME NEW f, NEW g, NEW d, NEW r \in Ref, \A s \in Ref \ {r} : g[s] = f[s]
    PROVE  Count(g, d) = Count(f, d) - (IF f[r] = d THEN 1 ELSE 0)
                                     + (IF g[r] = d THEN 1 ELSE 0)
<1>. DEFINE S == {s \in Ref : f[s] = d}
            T == {s \in Ref : g[s] = d}
            U == S \ {r}
<1>1. IsFiniteSet(S) /\ IsFiniteSet(T) /\ Count(f, d) \in Nat /\ Count(g, d) \in Nat
  BY CountFacts
<1>2. Count(f, d) = Cardinality(S) /\ Count(g, d) = Cardinality(T)
  BY DEF Count
<1>3. IsFiniteSet(U) /\ Cardinality(U) \in Nat
  BY <1>1, FS_Subset, FS_CardinalityType
<1>4. r \notin U /\ Cardinality(U \cup {r}) = Cardinality(U) + 1
  BY <1>3, FS_AddElement
<1>5. S = IF f[r] = d THEN U \cup {r} ELSE U
  OBVIOUS
<1>6. T = IF g[r] = d THEN U \cup {r} ELSE U
  OBVIOUS
<1>7. Count(f, d) = Cardinality(U) + (IF f[r] = d THEN 1 ELSE 0)
  BY <1>2, <1>3, <1>4, <1>5
<1>9. PICK n \in Nat : n = Cardinality(U)
  BY <1>3
<1>8. Count(g, d) = n + (IF g[r] = d THEN 1 ELSE 0)
  <2>1. CASE g[r] = d
    <3>1. T = U \cup {r} BY <1>6, <2>1
    <3>2. Count(g, d) = Cardinality(U \cup {r}) BY <1>2, <3>1
    <3>. HIDE DEF S, T, U
    <3>. QED BY <1>4, <1>9, <2>1, <3>2
  <2>2. CASE g[r] # d
    <3>1. T = U BY <1>6, <2>2
    <3>2. Count(g, d) = Cardinality(U) BY <1>2, <3>1
    <3>. HIDE DEF S, T, U
    <3>. QED BY <1>9, <2>2, <3>2
  <2>. QED BY <2>1, <2>2
<1>10. CASE f[r] = d
  <2>1. Count(f, d) = n + 1 BY <1>7, <1>9, <1>10
  <2>. QED BY <2>1, <1>8, <1>9, <1>10
<1>11. CASE f[r] # d
  <2>1. Count(f, d) = n BY <1>7, <1>9, <1>11
  <2>. QED BY <2>1, <1>8, <1>9, <1>11
<1>. QED BY <1>10, <1>11

\* A change of two entries.
LEMMA CountChanges ==
    ASSUME NEW f, NEW g, NEW d, NEW r \in Ref, NEW s \in Ref, r # s,
           \A t \in Ref \ {r, s} : g[t] = f[t]
    PROVE  Count(g, d) = Count(f, d) - (IF f[r] = d THEN 1 ELSE 0)
                                     - (IF f[s] = d THEN 1 ELSE 0)
                                     + (IF g[r] = d THEN 1 ELSE 0)
                                     + (IF g[s] = d THEN 1 ELSE 0)
<1>. DEFINE h == [t \in Ref |-> IF t = r THEN g[r] ELSE f[t]]
<1>1. Count(h, d) = Count(f, d) - (IF f[r] = d THEN 1 ELSE 0)
                                + (IF h[r] = d THEN 1 ELSE 0)
  BY CountChange
<1>2. Count(g, d) = Count(h, d) - (IF h[s] = d THEN 1 ELSE 0)
                                + (IF g[s] = d THEN 1 ELSE 0)
  <2>1. \A t \in Ref \ {s} : g[t] = h[t] OBVIOUS
  <2>. HIDE DEF h
  <2>. QED BY <2>1, CountChange
<1>3. h[r] = g[r] /\ h[s] = f[s] OBVIOUS
<1>4. Count(f, d) \in Nat /\ Count(h, d) \in Nat /\ Count(g, d) \in Nat
  BY CountFacts
<1>. QED BY <1>1, <1>2, <1>3, <1>4

\* The only entry.
LEMMA CountSole ==
    ASSUME NEW f, NEW d, NEW r \in Ref, f[r] = d, Count(f, d) <= 1
    PROVE  \A s \in Ref \ {r} : f[s] # d
<1>. DEFINE g == [s \in Ref |-> IF s = r THEN (IF d = 0 THEN 1 ELSE 0) ELSE f[s]]
<1>1. \A s \in Ref \ {r} : g[s] = f[s] OBVIOUS
<1>2. g[r] # d OBVIOUS
<1>. HIDE DEF g
<1>3. Count(g, d) = Count(f, d) - 1 + (IF g[r] = d THEN 1 ELSE 0)
  BY <1>1, CountChange
<1>4. /\ Count(f, d) \in Nat /\ Count(g, d) \in Nat
      /\ Count(g, d) = 0 <=> \A s \in Ref : g[s] # d
  BY CountFacts
<1>5. Count(g, d) = 0
  BY <1>2, <1>3, <1>4
<1>. QED BY <1>1, <1>4, <1>5

-----------------------------------------------------------------------------
(* The invariant.                                                          *)

\* What the holder of each buffer_t sees.
Val == [r \in Ref |-> IF Valid(r) THEN Bytes(r) ELSE NoData]

\* The operations that change a buffer, and the release of data.
Change ==
    [name : {"append"}, byte : Byte, with : Ref]
        \cup [name : {"concat", "clear"}, with : Ref]
        \cup [name : {"remove"}, start : Nat, len : Nat \ {0}, with : Ref]
        \cup [name : {"split"}, len : Nat \ {0}, with : Ref]

Release == [name : {"release"}, with : Ref]

Changing == {"change", "copy"}
Releases == {"release", "dec"}
Busy == Changing \cup Releases

\* Types.
Types ==
    /\ m_ptr \in [Ref -> Data \cup {NoData}]
    /\ m_ref \in [Data -> Nat]
    /\ m_cap \in [Data -> Nat \cup {NoData}]
    /\ m_data \in [Data -> Seq(Byte)]
    /\ pc \in [Ref -> {"idle", "lent"} \cup Busy]
    /\ op \in [Ref -> Change \cup Release \cup {NoOp}]
    /\ old \in [Ref -> Data \cup {NoData}]

\* What a thread that is at work has in hand.
Working(r) ==
    /\ pc[r] \notin Busy => op[r] = NoOp
    /\ pc[r] \notin Releases => old[r] = NoData
    /\ pc[r] \in Releases => op[r] \in Release /\ old[r] # NoData
    /\ pc[r] \in Changing =>
           /\ op[r] \in Change
           /\ Val[r] # NoData
           /\ op[r].name = "concat" => Val[op[r].with] # NoData
           /\ op[r].name = "remove" => op[r].start < Len(Val[r])
           /\ op[r].name = "split" => Val[op[r].with] = NoData
    /\ pc[r] = "change" => m_ref[m_ptr[r]] = 1

\* A buffer_t is lent to at most one other.
Lending ==
    \A r \in Ref : pc[r] \in Busy =>
        /\ op[r].with # r => pc[op[r].with] = "lent"
        /\ \A s \in Ref : pc[s] \in Busy /\ s # r => op[s].with # op[r].with

\* The count of d is exact, and its bytes fit.
Counted(d) ==
    /\ m_ref[d] = Count(m_ptr, d) + Count(old, d)
    /\ m_cap[d] = NoData <=> m_ref[d] = 0
    /\ m_cap[d] # NoData => Len(m_data[d]) <= m_cap[d]

Counts == \A d \in Data : Counted(d)

\* The inductive invariant.
BufferInv == Types /\ (\A r \in Ref : Working(r)) /\ Lending /\ Counts

-----------------------------------------------------------------------------
(* Data, pointers and values.                                              *)

\* A set of numbers that is not empty has a least.
LEMMA LeastExists ==
    ASSUME NEW S, S \subseteq Nat, S # {}
    PROVE  \E x \in S : \A y \in S : x =< y
<1>1. PICK R : R = OpToRel(<, Nat)
  OBVIOUS
<1>2. IsWellFoundedOn(R, Nat)
  BY <1>1, NatLessThanWellFounded
<1>3. PICK x \in S : \A y \in S : <<y, x>> \notin R
  BY <1>2, WFMin
<1>4. ASSUME NEW y \in S
      PROVE  x =< y
  <2>1. <<y, x>> \in R <=> y < x
    BY <1>1 DEF OpToRel
  <2>. QED BY <1>3, <2>1
<1>. QED BY <1>3, <1>4

\* The least of a set of numbers is one of them.
LEMMA LeastChosen ==
    ASSUME NEW S, S \subseteq Nat, S # {}
    PROVE  Min(S) \in S
<1>1. \E z \in S : \A y \in S : z =< y
  BY LeastExists
<1>. QED BY <1>1 DEF Min

\* A set of data in memory has a least element.
LEMMA MinChosen ==
    ASSUME NEW S, S \subseteq Data, S # {}
    PROVE  Min(S) \in S
<1>1. S \subseteq Nat BY BufferAssumption DEF Data
<1>. QED BY <1>1, LeastChosen

\* Data is numbered, and the numbers are nothing else.
LEMMA DataFacts ==
    /\ Data \subseteq Nat /\ NoData \notin Data /\ NoData \notin Nat
    /\ NoData \notin Seq(Byte) /\ << >> \in Seq(Byte)
    /\ MAX_BUFFER_CAPACITY \in Nat \ {0} /\ MAX_BUFFER_PREALLOC \in Nat \ {0}
    /\ DEFAULT_BUFFER_CAPACITY \in Nat \ {0}
BY BufferAssumption DEF Data

\* What a buffer holds.
LEMMA ValIs ==
    ASSUME Types, NEW r \in Ref
    PROVE  /\ Val[r] = NoData <=> m_ptr[r] = NoData
           /\ m_ptr[r] # NoData => /\ m_ptr[r] \in Data
                                   /\ Val[r] = m_data[m_ptr[r]]
                                   /\ Val[r] \in Seq(Byte)
BY DataFacts DEF Types, Val, Valid, Bytes

\* References of data: none if it is free, one if the count is 1.
LEMMA Holders ==
    ASSUME Types, Counts, NEW d \in Data
    PROVE  /\ m_ref[d] \in Nat /\ Count(m_ptr, d) \in Nat /\ Count(old, d) \in Nat
           /\ m_ref[d] = Count(m_ptr, d) + Count(old, d)
           /\ d \in Free <=> m_ref[d] = 0
           /\ m_ref[d] = 0 => \A s \in Ref : m_ptr[s] # d /\ old[s] # d
           /\ \A r \in Ref : m_ptr[r] = d /\ m_ref[d] = 1 =>
                  /\ \A s \in Ref \ {r} : m_ptr[s] # d
                  /\ \A s \in Ref : old[s] # d
           /\ \A r \in Ref : old[r] = d /\ m_ref[d] = 1 =>
                  /\ \A s \in Ref \ {r} : old[s] # d
                  /\ \A s \in Ref : m_ptr[s] # d
           /\ \A r \in Ref : m_ptr[r] = d \/ old[r] = d => m_ref[d] > 0
           /\ \A r, s \in Ref : m_ptr[r] = d /\ old[s] = d => m_ref[d] > 1
<1>1. /\ Count(m_ptr, d) \in Nat
      /\ Count(m_ptr, d) = 0 <=> \A r \in Ref : m_ptr[r] # d
  BY CountFacts
<1>2. /\ Count(old, d) \in Nat
      /\ Count(old, d) = 0 <=> \A r \in Ref : old[r] # d
  BY CountFacts
<1>3. m_ref[d] \in Nat /\ m_ref[d] = Count(m_ptr, d) + Count(old, d)
  BY DEF Types, Counts, Counted
<1>4. d \in Free <=> m_ref[d] = 0
  BY DEF Free, Counts, Counted
<1>5. ASSUME NEW r \in Ref, m_ptr[r] = d, m_ref[d] = 1
      PROVE  (\A s \in Ref \ {r} : m_ptr[s] # d) /\ (\A s \in Ref : old[s] # d)
  <2>1. Count(m_ptr, d) = 1 /\ Count(old, d) = 0
    BY <1>1, <1>2, <1>3, <1>5
  <2>2. \A s \in Ref \ {r} : m_ptr[s] # d
    BY <1>5, <2>1, CountSole
  <2>. QED BY <1>2, <2>1, <2>2
<1>6. ASSUME NEW r \in Ref, old[r] = d, m_ref[d] = 1
      PROVE  (\A s \in Ref \ {r} : old[s] # d) /\ (\A s \in Ref : m_ptr[s] # d)
  <2>1. Count(m_ptr, d) = 0 /\ Count(old, d) = 1
    BY <1>1, <1>2, <1>3, <1>6
  <2>2. \A s \in Ref \ {r} : old[s] # d
    BY <1>6, <2>1, CountSole
  <2>. QED BY <1>1, <2>1, <2>2
<1>7. m_ref[d] = 0 => \A s \in Ref : m_ptr[s] # d /\ old[s] # d
  BY <1>1, <1>2, <1>3
<1>8. ASSUME NEW r \in Ref, m_ptr[r] = d \/ old[r] = d
      PROVE  m_ref[d] > 0
  BY <1>1, <1>2, <1>3, <1>8
<1>9. ASSUME NEW r \in Ref, NEW s \in Ref, m_ptr[r] = d, old[s] = d
      PROVE  m_ref[d] > 1
  BY <1>1, <1>2, <1>3, <1>9
<1>. QED BY <1>1, <1>2, <1>3, <1>4, <1>5, <1>6, <1>7, <1>8, <1>9

\* Where new data goes nobody refers to.
LEMMA NewIsFree ==
    ASSUME Types, Counts, Free # {}
    PROVE  /\ New \in Data /\ m_cap[New] = NoData /\ m_ref[New] = 0
           /\ \A s \in Ref : m_ptr[s] # New /\ old[s] # New
<1>1. New \in Free
  BY MinChosen DEF New, Free
<1>. QED BY <1>1, Holders DEF Free

\* One pointer changes.
LEMMA PtrCount ==
    ASSUME NEW r \in Ref, NEW e, \A s \in Ref \ {r} : m_ptr'[s] = m_ptr[s]
    PROVE  /\ Count(m_ptr, e) \in Nat /\ Count(m_ptr', e) \in Nat
           /\ (m_ptr[r] = e <=> m_ptr'[r] = e) => Count(m_ptr', e) = Count(m_ptr, e)
           /\ m_ptr[r] # e /\ m_ptr'[r] = e => Count(m_ptr', e) = Count(m_ptr, e) + 1
           /\ m_ptr[r] = e /\ m_ptr'[r] # e => Count(m_ptr', e) = Count(m_ptr, e) - 1
<1>1. Count(m_ptr, e) \in Nat /\ Count(m_ptr', e) \in Nat
  BY CountFacts
<1>2. Count(m_ptr', e) = Count(m_ptr, e) - (IF m_ptr[r] = e THEN 1 ELSE 0)
                                         + (IF m_ptr'[r] = e THEN 1 ELSE 0)
  BY CountChange
<1>. QED BY <1>1, <1>2

\* Two pointers change, the second of which did not point to e.
LEMMA PtrCounts ==
    ASSUME NEW r \in Ref, NEW w \in Ref, r # w, NEW e, m_ptr[w] # e,
           \A s \in Ref \ {r, w} : m_ptr'[s] = m_ptr[s]
    PROVE  /\ m_ptr[r] # e /\ (m_ptr'[r] = e <=> m_ptr'[w] # e)
                => Count(m_ptr', e) = Count(m_ptr, e) + 1
           /\ m_ptr'[r] # e /\ m_ptr'[w] # e =>
                  /\ m_ptr[r] = e => Count(m_ptr', e) = Count(m_ptr, e) - 1
                  /\ m_ptr[r] # e => Count(m_ptr', e) = Count(m_ptr, e)
<1>1. Count(m_ptr, e) \in Nat /\ Count(m_ptr', e) \in Nat
  BY CountFacts
<1>2. Count(m_ptr', e) = Count(m_ptr, e) - (IF m_ptr[r] = e THEN 1 ELSE 0)
                                         - (IF m_ptr[w] = e THEN 1 ELSE 0)
                                         + (IF m_ptr'[r] = e THEN 1 ELSE 0)
                                         + (IF m_ptr'[w] = e THEN 1 ELSE 0)
  BY CountChanges
<1>. QED BY <1>1, <1>2

\* One release begins or ends.
LEMMA OldCount ==
    ASSUME NEW r \in Ref, NEW e, \A s \in Ref \ {r} : old'[s] = old[s]
    PROVE  /\ Count(old, e) \in Nat /\ Count(old', e) \in Nat
           /\ (old[r] = e <=> old'[r] = e) => Count(old', e) = Count(old, e)
           /\ old[r] # e /\ old'[r] = e => Count(old', e) = Count(old, e) + 1
           /\ old[r] = e /\ old'[r] # e => Count(old', e) = Count(old, e) - 1
<1>1. Count(old, e) \in Nat /\ Count(old', e) \in Nat
  BY CountFacts
<1>2. Count(old', e) = Count(old, e) - (IF old[r] = e THEN 1 ELSE 0)
                                     + (IF old'[r] = e THEN 1 ELSE 0)
  BY CountChange
<1>. QED BY <1>1, <1>2

-----------------------------------------------------------------------------
(* What an operation of one buffer_t leaves alone.                         *)

\* The thread of r takes a step, in which it uses w.
Moves(r, w) ==
    /\ pc[r] \in Busy => w = op[r].with
    /\ pc[r] \notin Busy => pc[r] = "idle" /\ pc[w] = "idle"
    /\ w # r => pc'[w] \in {"idle", "lent"} /\ op'[w] = op[w] /\ old'[w] = old[w]
    /\ pc'[r] \in Busy => op'[r].with = w /\ (w # r => pc'[w] = "lent")
    /\ \A s \in Ref \ {r, w} : pc'[s] = pc[s] /\ op'[s] = op[s] /\ old'[s] = old[s]

\* The values of the others, and that they are not shared, are as before.
Leaves(r, w) ==
    \A s \in Ref \ {r, w} :
        /\ Val'[s] = Val[s]
        /\ pc[s] = "change" => m_ptr'[s] = m_ptr[s] /\ m_ref'[m_ptr[s]] = 1

\* The other buffers are not at work with r or w.
LEMMA Apart ==
    ASSUME Types, \A r \in Ref : Working(r), Lending,
           NEW r \in Ref, NEW w \in Ref, Moves(r, w),
           NEW s \in Ref, s # r, pc[s] \in Busy
    PROVE  s # w /\ op[s].with \in Ref \ {r, w}
<1>1. op[s] \in Change \cup Release
  BY DEF Working, Busy
<1>2. op[s].with \in Ref
  BY <1>1 DEF Change, Release
<1>3. s # w /\ op[s].with # w
  <2>1. CASE pc[r] \in Busy
    <3>1. w = op[r].with /\ (w # r => pc[w] = "lent")
      BY <2>1 DEF Moves, Lending
    <3>. QED BY <2>1, <3>1 DEF Lending, Busy, Changing, Releases
  <2>2. CASE pc[r] \notin Busy
    <3>1. pc[w] = "idle" /\ pc[r] = "idle" BY <2>2 DEF Moves
    <3>2. s # w BY <3>1 DEF Busy, Changing, Releases
    <3>3. op[s].with # s => pc[op[s].with] = "lent" BY DEF Lending
    <3>. QED BY <3>1, <3>2, <3>3
  <2>. QED BY <2>1, <2>2
<1>4. op[s].with # r
  <2>1. op[s].with # s => pc[op[s].with] = "lent" BY DEF Lending
  <2>2. pc[r] # "lent" BY DEF Moves, Busy, Changing, Releases
  <2>. QED BY <2>1, <2>2
<1>. QED BY <1>2, <1>3, <1>4

\* So they stay as they are.
LEMMA OthersKeep ==
    ASSUME Types, \A r \in Ref : Working(r), Lending,
           NEW r \in Ref, NEW w \in Ref, Moves(r, w), Leaves(r, w),
           Working(r)'
    PROVE  (\A s \in Ref : Working(s)') /\ Lending'
<1>1. ASSUME NEW s \in Ref, s # r
      PROVE  Working(s)'
  <2>1. CASE s = w
    <3>1. pc[w] \notin Busy
      <4>1. CASE pc[r] \in Busy
        BY <1>1, <2>1, <4>1 DEF Moves, Lending, Busy, Changing, Releases
      <4>2. CASE pc[r] \notin Busy
        BY <4>2 DEF Moves, Busy, Changing, Releases
      <4>. QED BY <4>1, <4>2
    <3>2. op[w] = NoOp /\ old[w] = NoData
      BY <3>1 DEF Working, Busy
    <3>3. op'[w] = NoOp /\ old'[w] = NoData /\ pc'[w] \in {"idle", "lent"}
      BY <1>1, <2>1, <3>2 DEF Moves
    <3>. QED BY <2>1, <3>3 DEF Working, Busy, Changing, Releases
  <2>2. CASE s # w
    <3>1. /\ pc'[s] = pc[s] /\ op'[s] = op[s] /\ old'[s] = old[s]
          /\ Val'[s] = Val[s]
          /\ pc[s] = "change" => m_ptr'[s] = m_ptr[s] /\ m_ref'[m_ptr[s]] = 1
      BY <1>1, <2>2 DEF Moves, Leaves
    <3>2. pc[s] \in Busy => Val'[op[s].with] = Val[op[s].with]
      BY <1>1, Apart DEF Leaves
    <3>3. Working(s) OBVIOUS
    <3>. QED BY <3>1, <3>2, <3>3 DEF Working, Busy
  <2>. QED BY <2>1, <2>2
<1>2. ASSUME NEW s \in Ref, pc'[s] \in Busy
      PROVE  /\ op'[s].with # s => pc'[op'[s].with] = "lent"
             /\ \A u \in Ref : pc'[u] \in Busy /\ u # s => op'[u].with # op'[s].with
  <2>1. ASSUME NEW t \in Ref, t # r, pc'[t] \in Busy
        PROVE  /\ t # w /\ pc[t] \in Busy /\ op'[t] = op[t]
               /\ op[t].with \in Ref \ {r, w}
    <3>1. t # w BY <2>1 DEF Moves, Busy, Changing, Releases
    <3>2. pc'[t] = pc[t] /\ op'[t] = op[t] BY <2>1, <3>1 DEF Moves
    <3>. QED BY <2>1, <3>1, <3>2, Apart
  <2>2. CASE s = r
    <3>1. op'[r].with = w /\ (w # r => pc'[w] = "lent")
      BY <1>2, <2>2 DEF Moves
    <3>. QED BY <2>1, <2>2, <3>1
  <2>3. CASE s # r
    <3>1. /\ pc[s] \in Busy /\ op'[s] = op[s] /\ op[s].with \in Ref \ {r, w}
      BY <1>2, <2>1, <2>3
    <3>2. op[s].with # s => pc'[op[s].with] = "lent"
      <4>1. op[s].with # s => pc[op[s].with] = "lent" BY <3>1 DEF Lending
      <4>. QED BY <3>1, <4>1 DEF Moves
    <3>3. ASSUME NEW u \in Ref, pc'[u] \in Busy, u # s
          PROVE  op'[u].with # op'[s].with
      <4>1. CASE u = r
        <5>1. op'[r].with = w BY <3>3, <4>1 DEF Moves
        <5>. QED BY <3>1, <4>1, <5>1
      <4>2. CASE u # r
        <5>1. pc[u] \in Busy /\ op'[u] = op[u] BY <2>1, <3>3, <4>2
        <5>. QED BY <3>1, <3>3, <5>1 DEF Lending
      <4>. QED BY <4>1, <4>2
    <3>. QED BY <3>1, <3>2, <3>3
  <2>. QED BY <2>2, <2>3
<1>3. Lending' BY <1>2 DEF Lending
<1>. QED BY <1>1, <1>3

\* Values are as before where pointers and data are.
LEMMA Undisturbed ==
    ASSUME NEW s \in Ref, m_ptr'[s] = m_ptr[s],
           m_ptr[s] # NoData => m_data'[m_ptr[s]] = m_data[m_ptr[s]]
    PROVE  Val'[s] = Val[s]
BY DEF Val, Valid, Bytes

\* What a buffer holds after a step.
LEMMA ValBecomes ==
    ASSUME NEW s \in Ref
    PROVE  /\ m_ptr'[s] = NoData => Val'[s] = NoData
           /\ m_ptr'[s] # NoData => Val'[s] = m_data'[m_ptr'[s]]
BY DEF Val, Valid, Bytes

\* The values of all are as before.
LEMMA SameVal ==
    ASSUME \A s \in Ref : Val'[s] = Val[s]
    PROVE  Val' = Val
BY DEF Val

\* The values of all but one are as before.
LEMMA OneVal ==
    ASSUME NEW r \in Ref, NEW v, Val'[r] = v,
           \A s \in Ref \ {r} : Val'[s] = Val[s]
    PROVE  Val' = [Val EXCEPT ![r] = v]
BY DEF Val

-----------------------------------------------------------------------------
(* What the thread of one buffer_t does.                                   *)

\* The parts of Types that are about threads.
ThreadTypes ==
    /\ pc \in [Ref -> {"idle", "lent"} \cup Busy]
    /\ op \in [Ref -> Change \cup Release \cup {NoOp}]
    /\ old \in [Ref -> Data \cup {NoData}]

\* The parts of Types that are about memory.
HeapTypes ==
    /\ m_ptr \in [Ref -> Data \cup {NoData}]
    /\ m_ref \in [Data -> Nat]
    /\ m_cap \in [Data -> Nat \cup {NoData}]
    /\ m_data \in [Data -> Seq(Byte)]

\* The operation of a thread that is at work.
LEMMA InHand ==
    ASSUME BufferInv, NEW r \in Ref, pc[r] \in Busy
    PROVE  /\ op[r] \in Change \cup Release /\ op[r].with \in Ref
           /\ op[r].with # r => pc[op[r].with] = "lent"
<1>1. op[r] \in Change \cup Release
  BY DEF BufferInv, Working, Busy
<1>. QED BY <1>1 DEF Change, Release, BufferInv, Lending

\* The end of an operation.
LEMMA EndMoves ==
    ASSUME BufferInv, NEW r \in Ref, pc[r] \in Busy, Released(r)
    PROVE  /\ Moves(r, op[r].with)
           /\ Working(r)' /\ ThreadTypes'
           /\ old'[r] = NoData /\ \A s \in Ref \ {r} : old'[s] = old[s]
<1>1. op[r].with \in Ref BY InHand
<1>2. pc \in [Ref -> {"idle", "lent"} \cup Busy] /\ DOMAIN op = Ref /\ DOMAIN old = Ref
  BY DEF BufferInv, Types
<1>3. pc'[r] = "idle" /\ pc'[op[r].with] = "idle" /\ op'[r] = NoOp /\ old'[r] = NoData
  BY <1>1, <1>2 DEF Released
<1>4. /\ \A s \in Ref \ {r, op[r].with} : pc'[s] = pc[s]
      /\ \A s \in Ref \ {r} : op'[s] = op[s] /\ old'[s] = old[s]
  BY <1>1, <1>2 DEF Released
<1>5. ThreadTypes'
  BY <1>1 DEF BufferInv, Types, ThreadTypes, Released
<1>6. Working(r)'
  BY <1>3 DEF Working, Busy, Changing, Releases
<1>7. Moves(r, op[r].with)
  BY <1>1, <1>3, <1>4 DEF Moves, Busy, Changing, Releases
<1>. QED BY <1>3, <1>4, <1>5, <1>6, <1>7

\* The release that follows a copy.
LEMMA CopyMoves ==
    ASSUME BufferInv, NEW r \in Ref, pc[r] = "copy", m_ptr[r] \in Data,
           old' = [old EXCEPT ![r] = m_ptr[r]], Releasing(r, op[r].with)
    PROVE  /\ Moves(r, op[r].with)
           /\ Working(r)' /\ ThreadTypes'
           /\ old'[r] = m_ptr[r] /\ \A s \in Ref \ {r} : old'[s] = old[s]
<1>0. pc[r] \in Busy BY DEF Busy, Changing
<1>1. op[r].with \in Ref /\ (op[r].with # r => pc[op[r].with] = "lent")
  BY <1>0, InHand
<1>2. pc \in [Ref -> {"idle", "lent"} \cup Busy] /\ DOMAIN op = Ref /\ DOMAIN old = Ref
  BY DEF BufferInv, Types
<1>3. /\ pc'[r] = "release" /\ old'[r] = m_ptr[r]
      /\ op'[r] = [name |-> "release", with |-> op[r].with]
  BY <1>1, <1>2 DEF Releasing
<1>4. /\ \A s \in Ref \ {r} : pc'[s] = pc[s] /\ op'[s] = op[s] /\ old'[s] = old[s]
  BY <1>1, <1>2 DEF Releasing
<1>5. op'[r] \in Release /\ op'[r].with = op[r].with
  BY <1>1, <1>3 DEF Release
<1>6. ThreadTypes'
  <2>1. pc' \in [Ref -> {"idle", "lent"} \cup Busy]
    BY <1>2 DEF Releasing, Busy, Releases
  <2>2. op' \in [Ref -> Change \cup Release \cup {NoOp}]
    BY <1>3, <1>5 DEF Releasing, BufferInv, Types
  <2>3. old' \in [Ref -> Data \cup {NoData}]
    BY DEF BufferInv, Types
  <2>. QED BY <2>1, <2>2, <2>3 DEF ThreadTypes
<1>7. Working(r)'
  BY <1>3, <1>5, DataFacts DEF Working, Busy, Changing, Releases
<1>8. Moves(r, op[r].with)
  BY <1>0, <1>1, <1>3, <1>4, <1>5 DEF Moves, Busy, Changing, Releases
<1>. QED BY <1>3, <1>4, <1>6, <1>7, <1>8

\* What is left to show of a step.
LEMMA Together ==
    ASSUME BufferInv, NEW r \in Ref, NEW w \in Ref, Moves(r, w), Leaves(r, w),
           Working(r)', ThreadTypes', HeapTypes', Counts'
    PROVE  BufferInv'
<1>1. Types' BY DEF Types, ThreadTypes, HeapTypes
<1>2. (\A s \in Ref : Working(s)') /\ Lending'
  BY OthersKeep DEF BufferInv
<1>. QED BY <1>1, <1>2 DEF BufferInv

-----------------------------------------------------------------------------
(* Each operation keeps the invariant and does what it does to values.     *)

\* A thread that is free stays as it is.
LEMMA IdleMoves ==
    ASSUME BufferInv, NEW r \in Ref, pc[r] = "idle", UNCHANGED thread
    PROVE  Moves(r, r) /\ Working(r)' /\ ThreadTypes'
<1>1. op[r] = NoOp /\ old[r] = NoData
  BY DEF BufferInv, Working, Busy, Changing, Releases
<1>2. Moves(r, r)
  BY DEF Moves, thread, Busy, Changing, Releases
<1>3. Working(r)'
  BY <1>1 DEF Working, thread, Busy, Changing, Releases
<1>4. ThreadTypes'
  BY DEF ThreadTypes, BufferInv, Types, thread
<1>. QED BY <1>2, <1>3, <1>4

\* buffer_create.
LEMMA CreateStep ==
    ASSUME BufferInv, NEW r \in Ref, create(r)
    PROVE  BufferInv' /\ Private!Create(r)
<1>0. Types /\ Counts BY DEF BufferInv
<1>1. /\ New \in Data /\ m_cap[New] = NoData /\ m_ref[New] = 0
      /\ \A s \in Ref : m_ptr[s] # New /\ old[s] # New
  BY <1>0, NewIsFree DEF create
<1>2. /\ m_ptr[r] = NoData /\ m_ptr' = [m_ptr EXCEPT ![r] = New]
      /\ m_ref' = [m_ref EXCEPT ![New] = 1]
      /\ m_cap' = [m_cap EXCEPT ![New] = DEFAULT_BUFFER_CAPACITY]
      /\ m_data' = [m_data EXCEPT ![New] = << >>]
      /\ old' = old
  BY DEF create, Valid, buffer_new, thread
<1>3. /\ m_ptr'[r] = New /\ \A s \in Ref \ {r} : m_ptr'[s] = m_ptr[s]
      /\ \A e \in Data : m_ref'[e] = IF e = New THEN 1 ELSE m_ref[e]
      /\ \A e \in Data : m_cap'[e] = IF e = New THEN DEFAULT_BUFFER_CAPACITY
                                                ELSE m_cap[e]
      /\ \A e \in Data : m_data'[e] = IF e = New THEN << >> ELSE m_data[e]
  BY <1>0, <1>1, <1>2 DEF Types
<1>4. HeapTypes'
  BY <1>0, <1>1, <1>2, DataFacts DEF HeapTypes, Types
<1>5. Counts'
  <2>1. ASSUME NEW e \in Data
        PROVE  Counted(e)'
    <3>1. /\ Counted(e) /\ m_ref[e] \in Nat /\ Count(m_ptr, e) \in Nat
          /\ Count(old, e) \in Nat
      BY <1>0, Holders DEF Counts
    <3>2. m_ptr[r] # e BY <1>2, DataFacts
    <3>3. CASE e = New
      <4>1. Count(m_ptr', e) = Count(m_ptr, e) + 1
        BY <1>3, <3>2, <3>3, PtrCount
      <4>2. Count(m_ptr, e) = 0 /\ Count(old, e) = 0
        BY <1>1, <3>1, <3>3 DEF Counted
      <4>. QED BY <1>2, <1>3, <3>3, <4>1, <4>2, DataFacts DEF Counted
    <3>4. CASE e # New
      <4>1. Count(m_ptr', e) = Count(m_ptr, e)
        BY <1>3, <3>2, <3>4, PtrCount
      <4>. QED BY <1>2, <1>3, <3>1, <3>4, <4>1 DEF Counted
    <3>. QED BY <3>3, <3>4
  <2>. QED BY <2>1 DEF Counts
<1>6. \A s \in Ref \ {r} : Val'[s] = Val[s]
  <2>1. ASSUME NEW s \in Ref \ {r}
        PROVE  m_ptr[s] # NoData => m_data'[m_ptr[s]] = m_data[m_ptr[s]]
    <3>1. m_ptr[s] # NoData => m_ptr[s] \in Data BY <1>0 DEF Types
    <3>. QED BY <1>1, <1>3, <3>1
  <2>. QED BY <1>3, <2>1, Undisturbed
<1>7. Leaves(r, r)
  <2>1. ASSUME NEW s \in Ref \ {r}, pc[s] = "change"
        PROVE  m_ptr'[s] = m_ptr[s] /\ m_ref'[m_ptr[s]] = 1
    <3>1. m_ref[m_ptr[s]] = 1 /\ m_ptr[s] \in Data
      BY <2>1, ValIs, <1>0 DEF BufferInv, Working, Changing
    <3>. QED BY <1>1, <1>3, <3>1
  <2>. QED BY <1>6, <2>1 DEF Leaves
<1>8. BufferInv'
  <2>1. pc[r] = "idle" /\ UNCHANGED thread BY DEF create, Begin
  <2>2. Moves(r, r) /\ Working(r)' /\ ThreadTypes' BY <2>1, IdleMoves
  <2>. QED BY <2>2, <1>4, <1>5, <1>7, Together
<1>9. Val' = [Val EXCEPT ![r] = << >>] /\ Val[r] = NoData
  <2>1. Val'[r] = << >> BY <1>1, <1>3, DataFacts, ValBecomes
  <2>. QED BY <1>0, <1>2, <1>6, <2>1, OneVal, ValIs
<1>10. Private!Create(r)
  BY <1>9 DEF Private!Create, Private!Valid, Val
<1>. QED BY <1>8, <1>10

\* Who changes data in place has it for himself.
LEMMA SoleOwner ==
    ASSUME BufferInv, NEW r \in Ref, pc[r] = "change"
    PROVE  /\ m_ptr[r] \in Data /\ m_ref[m_ptr[r]] = 1
           /\ \A s \in Ref \ {r} : m_ptr[s] # m_ptr[r]
           /\ \A s \in Ref : old[s] # m_ptr[r]
<1>0. Types /\ Counts BY DEF BufferInv
<1>1. Val[r] # NoData /\ m_ref[m_ptr[r]] = 1
  BY DEF BufferInv, Working, Changing
<1>2. m_ptr[r] \in Data BY <1>0, <1>1, ValIs
<1>. QED BY <1>0, <1>1, <1>2, Holders

\* Enough for the others to be left alone.
LEMMA LeavesOthers ==
    ASSUME BufferInv, NEW r \in Ref, NEW w \in Ref,
           \A s \in Ref \ {r, w} :
               /\ m_ptr'[s] = m_ptr[s]
               /\ m_ptr[s] \in Data => m_data'[m_ptr[s]] = m_data[m_ptr[s]]
               /\ pc[s] = "change" => m_ref'[m_ptr[s]] = m_ref[m_ptr[s]]
    PROVE  Leaves(r, w)
<1>1. ASSUME NEW s \in Ref \ {r, w}
      PROVE  /\ Val'[s] = Val[s]
             /\ pc[s] = "change" => m_ptr'[s] = m_ptr[s] /\ m_ref'[m_ptr[s]] = 1
  <2>1. m_ptr[s] # NoData => m_ptr[s] \in Data BY DEF BufferInv, Types
  <2>2. Val'[s] = Val[s] BY <2>1, Undisturbed
  <2>. QED BY <2>2, SoleOwner
<1>. QED BY <1>1 DEF Leaves

\* buffer_grab.
LEMMA GrabStep ==
    ASSUME BufferInv, NEW r \in Ref, NEW s \in Ref, buffer_grab(r, s)
    PROVE  BufferInv' /\ Private!Copy(r, s)
<1>0. Types /\ Counts BY DEF BufferInv
<1>. DEFINE d == m_ptr[s]
<1>1. /\ pc[r] = "idle" /\ pc[s] = "idle" /\ m_ptr[r] = NoData /\ d # NoData
      /\ m_ref' = [m_ref EXCEPT ![d] = @ + 1]
      /\ m_ptr' = [m_ptr EXCEPT ![r] = d]
      /\ m_cap' = m_cap /\ m_data' = m_data /\ UNCHANGED thread /\ old' = old
  BY DEF buffer_grab, Begin, Valid, thread
<1>2. d \in Data /\ r # s BY <1>0, <1>1, ValIs
<1>3. /\ m_ptr'[r] = d /\ \A u \in Ref \ {r} : m_ptr'[u] = m_ptr[u]
      /\ \A e \in Data : m_ref'[e] = IF e = d THEN m_ref[e] + 1 ELSE m_ref[e]
  BY <1>0, <1>1, <1>2 DEF Types
<1>4. HeapTypes'
  BY <1>0, <1>1, <1>2 DEF HeapTypes, Types
<1>5. Counts'
  <2>1. ASSUME NEW e \in Data
        PROVE  Counted(e)'
    <3>1. /\ Counted(e) /\ m_ref[e] \in Nat /\ Count(m_ptr, e) \in Nat
          /\ Count(old, e) \in Nat
      BY <1>0, Holders DEF Counts
    <3>2. m_ptr[r] # e BY <1>1, DataFacts
    <3>3. CASE e = d
      <4>1. Count(m_ptr', e) = Count(m_ptr, e) + 1
        BY <1>3, <3>2, <3>3, PtrCount
      <4>2. m_ref[e] > 0
        BY <1>0, <1>2, <3>3, Holders
      <4>. QED BY <1>1, <1>3, <3>1, <3>3, <4>1, <4>2 DEF Counted
    <3>4. CASE e # d
      <4>1. Count(m_ptr', e) = Count(m_ptr, e)
        BY <1>3, <3>2, <3>4, PtrCount
      <4>. QED BY <1>1, <1>3, <3>1, <3>4, <4>1 DEF Counted
    <3>. QED BY <3>3, <3>4
  <2>. QED BY <2>1 DEF Counts
<1>6. Leaves(r, r)
  <2>1. ASSUME NEW u \in Ref \ {r}, pc[u] = "change"
        PROVE  m_ref'[m_ptr[u]] = m_ref[m_ptr[u]]
    <3>1. u # s BY <1>1, <2>1
    <3>2. m_ptr[u] \in Data /\ m_ptr[u] # d BY <2>1, <3>1, SoleOwner
    <3>. QED BY <1>3, <3>2
  <2>. QED BY <1>1, <1>3, <2>1, LeavesOthers
<1>7. BufferInv'
  <2>1. Moves(r, r) /\ Working(r)' /\ ThreadTypes' BY <1>1, IdleMoves
  <2>. QED BY <2>1, <1>4, <1>5, <1>6, Together
<1>8. Val' = [Val EXCEPT ![r] = Val[s]] /\ Val[r] = NoData /\ Val[s] # NoData
  <2>1. Val'[r] = Val[s] BY <1>0, <1>1, <1>2, <1>3, ValBecomes, ValIs
  <2>. QED BY <1>0, <1>1, <1>6, <2>1, OneVal, ValIs DEF Leaves
<1>9. Private!Copy(r, s)
  BY <1>8 DEF Private!Copy, Private!Valid, Val
<1>. QED BY <1>7, <1>9

\* buffer_release, before the count is looked at.
LEMMA ReleaseStep ==
    ASSUME BufferInv, NEW r \in Ref, release(r)
    PROVE  BufferInv' /\ Private!Drop(r)
<1>0. Types /\ Counts BY DEF BufferInv
<1>1. /\ pc[r] = "idle" /\ m_ptr[r] # NoData
      /\ m_ref' = m_ref /\ m_cap' = m_cap /\ m_data' = m_data
      /\ m_ptr' = [m_ptr EXCEPT ![r] = NoData]
      /\ old' = [old EXCEPT ![r] = m_ptr[r]]
      /\ Releasing(r, r)
  BY DEF release, Begin, Valid, heap
<1>2. m_ptr[r] \in Data /\ old[r] = NoData
  BY <1>0, <1>1, ValIs DEF BufferInv, Working, Releases
<1>3. /\ m_ptr'[r] = NoData /\ \A u \in Ref \ {r} : m_ptr'[u] = m_ptr[u]
      /\ old'[r] = m_ptr[r] /\ \A u \in Ref \ {r} : old'[u] = old[u]
      /\ pc'[r] = "release" /\ \A u \in Ref \ {r} : pc'[u] = pc[u]
      /\ op'[r] = [name |-> "release", with |-> r]
      /\ \A u \in Ref \ {r} : op'[u] = op[u]
  BY <1>0, <1>1 DEF Types, Releasing
<1>4. HeapTypes'
  BY <1>0, <1>1 DEF HeapTypes, Types
<1>5. Counts'
  <2>1. ASSUME NEW e \in Data
        PROVE  Counted(e)'
    <3>1. /\ Counted(e) /\ m_ref[e] \in Nat /\ Count(m_ptr, e) \in Nat
          /\ Count(old, e) \in Nat
      BY <1>0, Holders DEF Counts
    <3>2. NoData # e BY DataFacts
    <3>3. CASE e = m_ptr[r]
      <4>1. Count(m_ptr', e) = Count(m_ptr, e) - 1
        BY <1>3, <3>2, <3>3, PtrCount
      <4>2. Count(old', e) = Count(old, e) + 1
        BY <1>2, <1>3, <3>2, <3>3, OldCount
      <4>. QED BY <1>1, <3>1, <4>1, <4>2 DEF Counted
    <3>4. CASE e # m_ptr[r]
      <4>1. Count(m_ptr', e) = Count(m_ptr, e)
        BY <1>3, <3>2, <3>4, PtrCount
      <4>2. Count(old', e) = Count(old, e)
        BY <1>2, <1>3, <3>2, <3>4, OldCount
      <4>. QED BY <1>1, <3>1, <4>1, <4>2 DEF Counted
    <3>. QED BY <3>3, <3>4
  <2>. QED BY <2>1 DEF Counts
<1>6. Leaves(r, r)
  BY <1>1, <1>3, LeavesOthers
<1>7. Moves(r, r)
  BY <1>1, <1>3 DEF Moves, Busy, Changing, Releases
<1>8. op'[r] \in Release BY <1>3 DEF Release
<1>9. Working(r)'
  BY <1>2, <1>3, <1>8, DataFacts DEF Working, Busy, Changing, Releases
<1>10. ThreadTypes'
  <2>1. pc' \in [Ref -> {"idle", "lent"} \cup Busy]
    BY <1>0, <1>1 DEF Types, Releasing, Busy, Releases
  <2>2. op' \in [Ref -> Change \cup Release \cup {NoOp}]
    BY <1>0, <1>1, <1>3, <1>8 DEF Types, Releasing
  <2>3. old' \in [Ref -> Data \cup {NoData}]
    BY <1>0, <1>1 DEF Types
  <2>. QED BY <2>1, <2>2, <2>3 DEF ThreadTypes
<1>11. BufferInv'
  BY <1>4, <1>5, <1>6, <1>7, <1>9, <1>10, Together
<1>12. Val' = [Val EXCEPT ![r] = NoData] /\ Val[r] # NoData
  <2>1. Val'[r] = NoData BY <1>3, ValBecomes
  <2>. QED BY <1>0, <1>1, <1>6, <2>1, OneVal, ValIs DEF Leaves
<1>13. Private!Drop(r)
  BY <1>12 DEF Private!Drop, Private!Valid, Val
<1>. QED BY <1>11, <1>13

\* buffer_release, when the data is not in use elsewhere, or counted down.
LEMMA FreeStep ==
    ASSUME BufferInv, NEW r \in Ref, pc[r] \in Releases, m_ref[old[r]] = 1,
           free(old[r]), Released(r), m_ptr' = m_ptr
    PROVE  BufferInv' /\ Val' = Val
<1>0. Types /\ Counts BY DEF BufferInv
<1>. DEFINE d == old[r]
<1>1. pc[r] \in Busy /\ d # NoData /\ d \in Data
  BY <1>0 DEF Busy, BufferInv, Working, Types
<1>2. op[r].with \in Ref BY <1>1, InHand
<1>3. /\ \A s \in Ref : m_ptr[s] # d
      /\ \A s \in Ref \ {r} : old[s] # d
  BY <1>0, <1>1, Holders
<1>4. \A e \in Data :
          /\ m_ref'[e] = IF e = d THEN 0 ELSE m_ref[e]
          /\ m_cap'[e] = IF e = d THEN NoData ELSE m_cap[e]
          /\ m_data'[e] = IF e = d THEN << >> ELSE m_data[e]
  BY <1>0, <1>1 DEF free, Types, Garbage
<1>5. /\ Moves(r, op[r].with) /\ Working(r)' /\ ThreadTypes'
      /\ old'[r] = NoData /\ \A s \in Ref \ {r} : old'[s] = old[s]
  BY <1>1, EndMoves
<1>6. HeapTypes'
  BY <1>0, <1>1, DataFacts DEF HeapTypes, Types, free, Garbage
<1>7. Counts'
  <2>1. ASSUME NEW e \in Data
        PROVE  Counted(e)'
    <3>1. /\ Counted(e) /\ m_ref[e] \in Nat /\ Count(m_ptr, e) \in Nat
          /\ Count(old, e) \in Nat
      BY <1>0, Holders DEF Counts
    <3>2. NoData # e BY DataFacts
    <3>3. CASE e = d
      <4>1. Count(old', e) = Count(old, e) - 1
        BY <1>5, <3>2, <3>3, OldCount
      <4>2. m_ref[e] = 1 BY <3>3
      <4>3. Count(m_ptr, e) = 0 BY <1>3, <3>3, CountFacts
      <4>. QED BY <1>4, <3>1, <3>3, <4>1, <4>2, <4>3 DEF Counted
    <3>4. CASE e # d
      <4>1. Count(old', e) = Count(old, e)
        BY <1>5, <3>2, <3>4, OldCount
      <4>. QED BY <1>4, <3>1, <3>4, <4>1 DEF Counted
    <3>. QED BY <3>3, <3>4
  <2>. QED BY <2>1 DEF Counts
<1>8. \A s \in Ref : Val'[s] = Val[s]
  <2>1. ASSUME NEW s \in Ref
        PROVE  m_ptr[s] # NoData => m_data'[m_ptr[s]] = m_data[m_ptr[s]]
    <3>1. m_ptr[s] # NoData => m_ptr[s] \in Data BY <1>0 DEF Types
    <3>. QED BY <1>3, <1>4, <3>1
  <2>. QED BY <2>1, Undisturbed
<1>9. Leaves(r, op[r].with)
  <2>1. ASSUME NEW s \in Ref, pc[s] = "change"
        PROVE  m_ref'[m_ptr[s]] = 1
    <3>1. m_ptr[s] \in Data /\ m_ref[m_ptr[s]] = 1 BY <2>1, SoleOwner
    <3>. QED BY <1>3, <1>4, <3>1
  <2>. QED BY <1>8, <2>1 DEF Leaves
<1>10. BufferInv'
  BY <1>2, <1>5, <1>6, <1>7, <1>9, Together
<1>. QED BY <1>8, <1>10, SameVal

\* Releasing one of several references frees nothing: the block stays with the
\* others and no value changes (buffer.h).
LEMMA DecStep ==
    ASSUME BufferInv, NEW r \in Ref, pc[r] \in Releases, m_ref[old[r]] # 1,
           m_ref' = [m_ref EXCEPT ![old[r]] = @ - 1], Released(r),
           UNCHANGED <<m_ptr, m_cap, m_data>>
    PROVE  BufferInv' /\ Val' = Val
<1>0. Types /\ Counts BY DEF BufferInv
<1>. DEFINE d == old[r]
<1>1. pc[r] \in Busy /\ d # NoData /\ d \in Data
  BY <1>0 DEF Busy, BufferInv, Working, Types
<1>2. op[r].with \in Ref BY <1>1, InHand
<1>3. m_ref[d] \in Nat /\ m_ref[d] > 1
  BY <1>0, <1>1, Holders
<1>4. \A e \in Data : m_ref'[e] = IF e = d THEN m_ref[e] - 1 ELSE m_ref[e]
  BY <1>0, <1>1 DEF Types
<1>5. /\ Moves(r, op[r].with) /\ Working(r)' /\ ThreadTypes'
      /\ old'[r] = NoData /\ \A s \in Ref \ {r} : old'[s] = old[s]
  BY <1>1, EndMoves
<1>6. HeapTypes'
  BY <1>0, <1>1, <1>3 DEF HeapTypes, Types
<1>7. Counts'
  <2>1. ASSUME NEW e \in Data
        PROVE  Counted(e)'
    <3>1. /\ Counted(e) /\ m_ref[e] \in Nat /\ Count(m_ptr, e) \in Nat
          /\ Count(old, e) \in Nat
      BY <1>0, Holders DEF Counts
    <3>2. NoData # e BY DataFacts
    <3>3. CASE e = d
      <4>1. Count(old', e) = Count(old, e) - 1
        BY <1>5, <3>2, <3>3, OldCount
      <4>. QED BY <1>3, <1>4, <3>1, <3>3, <4>1 DEF Counted
    <3>4. CASE e # d
      <4>1. Count(old', e) = Count(old, e)
        BY <1>5, <3>2, <3>4, OldCount
      <4>. QED BY <1>4, <3>1, <3>4, <4>1 DEF Counted
    <3>. QED BY <3>3, <3>4
  <2>. QED BY <2>1 DEF Counts
<1>8. \A s \in Ref : Val'[s] = Val[s]
  BY Undisturbed
<1>9. Leaves(r, op[r].with)
  <2>1. ASSUME NEW s \in Ref, pc[s] = "change"
        PROVE  m_ref'[m_ptr[s]] = 1
    <3>1. /\ m_ptr[s] \in Data /\ m_ref[m_ptr[s]] = 1
      BY <2>1, SoleOwner
    <3>. QED BY <1>3, <1>4, <3>1
  <2>. QED BY <1>8, <2>1 DEF Leaves
<1>10. BufferInv'
  BY <1>2, <1>5, <1>6, <1>7, <1>9, Together
<1>. QED BY <1>8, <1>10, SameVal

\* The count is not 1, and is counted down next.
LEMMA RelayStep ==
    ASSUME BufferInv, NEW r \in Ref, pc[r] = "release",
           pc' = [pc EXCEPT ![r] = "dec"], UNCHANGED <<heap, op, old, m_ptr>>
    PROVE  BufferInv' /\ Val' = Val
<1>0. Types /\ Counts BY DEF BufferInv
<1>1. pc[r] \in Busy BY DEF Busy, Releases
<1>2. op[r].with \in Ref /\ (op[r].with # r => pc[op[r].with] = "lent")
  BY <1>1, InHand
<1>3. /\ pc'[r] = "dec" /\ \A s \in Ref \ {r} : pc'[s] = pc[s]
      /\ op' = op /\ old' = old
  BY <1>0 DEF Types
<1>4. Moves(r, op[r].with)
  BY <1>1, <1>2, <1>3 DEF Moves, Busy, Changing, Releases
<1>5. op[r] \in Release /\ old[r] # NoData
  BY DEF BufferInv, Working, Releases
<1>6. Working(r)'
  BY <1>3, <1>5 DEF Working, Busy, Changing, Releases
<1>7. ThreadTypes'
  BY <1>0 DEF ThreadTypes, Types, Busy, Releases
<1>8. HeapTypes' /\ Counts'
  BY <1>0 DEF HeapTypes, Types, heap, Counts, Counted
<1>9. \A s \in Ref : Val'[s] = Val[s]
  BY Undisturbed DEF heap
<1>10. Leaves(r, op[r].with)
  BY <1>2, LeavesOthers DEF heap
<1>11. BufferInv'
  BY <1>2, <1>4, <1>6, <1>7, <1>8, <1>10, Together
<1>. QED BY <1>9, <1>11, SameVal

-----------------------------------------------------------------------------
(* A change is begun.                                                      *)

\* A thread that is free and the buffers that it takes.
LEMMA BeginStep ==
    ASSUME BufferInv, NEW r \in Ref, NEW o \in Change, begin(r, o),
           o.name = "concat" => Val[o.with] # NoData,
           o.name = "remove" => o.start < Len(Val[r]),
           o.name = "split" => Val[o.with] = NoData
    PROVE  BufferInv' /\ Val' = Val
<1>0. Types /\ Counts BY DEF BufferInv
<1>1. /\ pc[r] = "idle" /\ m_ptr[r] # NoData /\ pc[o.with] = "idle"
      /\ op' = [op EXCEPT ![r] = o]
      /\ pc' = [pc EXCEPT ![o.with] = "lent",
                          ![r] = IF m_ref[m_ptr[r]] = 1 THEN "change" ELSE "copy"]
      /\ m_ptr' = m_ptr /\ m_ref' = m_ref /\ m_cap' = m_cap /\ m_data' = m_data
      /\ old' = old
  BY DEF begin, Begin, Valid, heap
<1>2. o.with \in Ref BY DEF Change
<1>3. /\ pc'[r] \in Changing /\ (pc'[r] = "change" => m_ref[m_ptr[r]] = 1)
      /\ op'[r] = o
      /\ o.with # r => pc'[o.with] = "lent"
      /\ \A s \in Ref \ {r, o.with} : pc'[s] = pc[s]
      /\ \A s \in Ref \ {r} : op'[s] = op[s]
  BY <1>0, <1>1, <1>2 DEF Types, Changing
<1>4. Moves(r, o.with)
  BY <1>1, <1>2, <1>3 DEF Moves, Busy, Changing, Releases
<1>5. \A s \in Ref : Val'[s] = Val[s]
  BY <1>1, Undisturbed
<1>6. Leaves(r, o.with)
  BY <1>1, <1>2, LeavesOthers
<1>7. Working(r)'
  <2>1. old[r] = NoData
    BY <1>1 DEF BufferInv, Working, Releases
  <2>2. Val'[r] # NoData
    BY <1>0, <1>1, <1>5, ValIs
  <2>3. Val'[r] = Val[r] /\ Val'[o.with] = Val[o.with]
    BY <1>2, <1>5
  <2>. QED BY <1>1, <1>3, <2>1, <2>2, <2>3 DEF Working, Busy, Changing, Releases
<1>8. ThreadTypes'
  <2>1. pc' \in [Ref -> {"idle", "lent"} \cup Busy]
    BY <1>0, <1>1 DEF Types, Busy, Changing
  <2>2. op' \in [Ref -> Change \cup Release \cup {NoOp}]
    BY <1>0, <1>1 DEF Types
  <2>. QED BY <1>0, <1>1, <2>1, <2>2 DEF ThreadTypes, Types
<1>9. HeapTypes' /\ Counts'
  BY <1>0, <1>1 DEF HeapTypes, Types, Counts, Counted
<1>10. BufferInv'
  BY <1>2, <1>4, <1>6, <1>7, <1>8, <1>9, Together
<1>. QED BY <1>5, <1>10, SameVal

\* The operations that begin so.
LEMMA BeginsStep ==
    ASSUME BufferInv, NEW r \in Ref,
           \/ append_char(r)
           \/ \E s \in Ref : buffer_concat(r, s)
           \/ buffer_clear(r)
           \/ buffer_remove(r)
           \/ \E s \in Ref : buffer_split(r, s)
    PROVE  BufferInv' /\ Val' = Val
<1>0. Types BY DEF BufferInv
<1>1. CASE append_char(r)
  <2>1. PICK b \in Byte : begin(r, [name |-> "append", byte |-> b, with |-> r])
    BY <1>1 DEF append_char
  <2>2. [name |-> "append", byte |-> b, with |-> r] \in Change
    BY DEF Change
  <2>. QED BY <2>1, <2>2, BeginStep
<1>2. ASSUME NEW s \in Ref, buffer_concat(r, s)
      PROVE  BufferInv' /\ Val' = Val
  <2>1. begin(r, [name |-> "concat", with |-> s]) /\ Val[s] # NoData
    BY <1>0, <1>2, ValIs DEF buffer_concat, Valid
  <2>2. [name |-> "concat", with |-> s] \in Change
    BY DEF Change
  <2>. QED BY <2>1, <2>2, BeginStep
<1>3. CASE buffer_clear(r)
  <2>1. begin(r, [name |-> "clear", with |-> r])
    BY <1>3 DEF buffer_clear
  <2>2. [name |-> "clear", with |-> r] \in Change
    BY DEF Change
  <2>. QED BY <2>1, <2>2, BeginStep
<1>4. CASE buffer_remove(r)
  <2>0. Valid(r) /\ m_ptr[r] \in Data /\ Val[r] = Bytes(r) /\ Val[r] \in Seq(Byte)
    BY <1>0, <1>4, ValIs DEF buffer_remove, Valid, Bytes
  <2>1. PICK start \in 0 .. Len(Bytes(r)) - 1, len \in 1 .. MAX_BUFFER_CAPACITY - 1 :
            begin(r, [name |-> "remove", start |-> start, len |-> len, with |-> r])
    BY <1>4 DEF buffer_remove
  <2>2. start \in Nat /\ start < Len(Val[r]) /\ len \in Nat \ {0}
    BY <2>0, DataFacts
  <2>3. [name |-> "remove", start |-> start, len |-> len, with |-> r] \in Change
    BY <2>2 DEF Change
  <2>. QED BY <2>1, <2>2, <2>3, BeginStep
<1>5. ASSUME NEW s \in Ref, buffer_split(r, s)
      PROVE  BufferInv' /\ Val' = Val
  <2>0. Val[s] = NoData
    BY <1>0, <1>5, ValIs DEF buffer_split, Valid
  <2>1. PICK len \in 1 .. MAX_BUFFER_CAPACITY - 1 :
            begin(r, [name |-> "split", len |-> len, with |-> s])
    BY <1>5 DEF buffer_split
  <2>2. len \in Nat \ {0} BY DataFacts
  <2>3. [name |-> "split", len |-> len, with |-> s] \in Change
    BY <2>2 DEF Change
  <2>. QED BY <2>0, <2>1, <2>3, BeginStep
<1>. QED BY <1>1, <1>2, <1>3, <1>4, <1>5

-----------------------------------------------------------------------------
(* The data of a change.                                                   *)

\* The operation under way and the bytes that it is about.
LEMMA AtWork ==
    ASSUME BufferInv, NEW r \in Ref, pc[r] \in Changing
    PROVE  /\ pc[r] \in Busy /\ op[r] \in Change /\ op[r].with \in Ref
           /\ m_ptr[r] \in Data /\ old[r] = NoData
           /\ Bytes(r) = m_data[m_ptr[r]] /\ Val[r] = Bytes(r)
           /\ Bytes(r) \in Seq(Byte) /\ Val[r] # NoData
           /\ m_cap[m_ptr[r]] \in Nat /\ Len(Bytes(r)) <= m_cap[m_ptr[r]]
           /\ op[r].name = "concat" =>
                  /\ m_ptr[op[r].with] \in Data
                  /\ Val[op[r].with] = Bytes(op[r].with)
                  /\ Bytes(op[r].with) \in Seq(Byte) /\ Val[op[r].with] # NoData
           /\ op[r].name = "split" =>
                  /\ op[r].with # r /\ m_ptr[op[r].with] = NoData
                  /\ Val[op[r].with] = NoData
           /\ op[r].name = "remove" => op[r].start < Len(Bytes(r))
<1>0. Types /\ Counts BY DEF BufferInv
<1>1. pc[r] \in Busy BY DEF Busy
<1>2. op[r] \in Change /\ Val[r] # NoData /\ old[r] = NoData
  BY DEF BufferInv, Working, Changing, Releases
<1>3. op[r].with \in Ref BY <1>1, InHand
<1>4. m_ptr[r] \in Data /\ Val[r] = m_data[m_ptr[r]] /\ Val[r] \in Seq(Byte)
  BY <1>0, <1>2, ValIs
<1>5. Bytes(r) = Val[r] BY <1>4 DEF Bytes
<1>6. m_cap[m_ptr[r]] \in Nat /\ Len(Bytes(r)) <= m_cap[m_ptr[r]]
  <2>1. m_ref[m_ptr[r]] > 0 BY <1>0, <1>4, Holders
  <2>2. Counted(m_ptr[r]) BY <1>0, <1>4 DEF Counts
  <2>3. m_cap[m_ptr[r]] \in Nat \cup {NoData} BY <1>0, <1>4 DEF Types
  <2>. QED BY <1>4, <1>5, <2>1, <2>2, <2>3 DEF Counted
<1>7. ASSUME op[r].name = "concat"
      PROVE  /\ m_ptr[op[r].with] \in Data
             /\ Val[op[r].with] = Bytes(op[r].with)
             /\ Bytes(op[r].with) \in Seq(Byte) /\ Val[op[r].with] # NoData
  <2>1. Val[op[r].with] # NoData BY <1>7 DEF BufferInv, Working
  <2>. QED BY <1>0, <1>3, <2>1, ValIs DEF Bytes
<1>8. ASSUME op[r].name = "split"
      PROVE  /\ op[r].with # r /\ m_ptr[op[r].with] = NoData
             /\ Val[op[r].with] = NoData
  <2>1. Val[op[r].with] = NoData BY <1>8 DEF BufferInv, Working
  <2>. QED BY <1>0, <1>2, <1>3, <2>1, ValIs
<1>9. op[r].name = "remove" => op[r].start < Len(Bytes(r))
  BY <1>5 DEF BufferInv, Working
<1>. QED BY <1>1, <1>2, <1>3, <1>4, <1>5, <1>6, <1>7, <1>8, <1>9

\* The parameters of each operation.
LEMMA ChangeFields ==
    ASSUME NEW o \in Change
    PROVE  /\ o.name \in {"append", "concat", "clear", "remove", "split"}
           /\ o.name = "append" => o.byte \in Byte
           /\ o.name = "remove" => o.start \in Nat /\ o.len \in Nat \ {0}
           /\ o.name = "split" => o.len \in Nat \ {0}
BY DEF Change

\* A capacity is enough for the bytes it was computed for.
LEMMA CapacityEnough ==
    ASSUME NEW len \in Nat, NEW add \in Nat
    PROVE  /\ buffer_gen_capacity(len, add) \in Nat
           /\ buffer_gen_capacity(len, add) # 0
                => len + add <= buffer_gen_capacity(len, add)
<1>1. CASE len + add >= MAX_BUFFER_CAPACITY
  BY <1>1 DEF buffer_gen_capacity
<1>2. CASE ~ (len + add >= MAX_BUFFER_CAPACITY)
  <2>. DEFINE x == IF len + add < MAX_BUFFER_PREALLOC THEN 2 * (len + add)
                   ELSE len + add + MAX_BUFFER_PREALLOC
  <2>1. MAX_BUFFER_CAPACITY \in Nat /\ len + add < MAX_BUFFER_CAPACITY
    BY <1>2, DataFacts
  <2>2. x \in Nat /\ len + add <= x BY DataFacts
  <2>3. buffer_gen_capacity(len, add) = Min({MAX_BUFFER_CAPACITY, x})
    BY <1>2 DEF buffer_gen_capacity
  <2>. HIDE DEF x
  <2>4. \E z \in {MAX_BUFFER_CAPACITY, x} :
            \A y \in {MAX_BUFFER_CAPACITY, x} : z =< y
    BY <2>1, <2>2
  <2>5. Min({MAX_BUFFER_CAPACITY, x}) \in {MAX_BUFFER_CAPACITY, x}
    BY <2>4 DEF Min
  <2>. QED BY <2>1, <2>2, <2>3, <2>5
<1>. QED BY <1>1, <1>2

\* The bytes added.
LEMMA AddedIs ==
    ASSUME BufferInv, NEW r \in Ref, pc[r] \in Changing, Adds(r)
    PROVE  /\ Added(op[r]) \in Seq(Byte)
           /\ op[r].name = "append" => Added(op[r]) = <<op[r].byte>>
           /\ op[r].name = "concat" => Added(op[r]) = Val[op[r].with]
<1>1. op[r].name = "append" => op[r].byte \in Byte
  BY AtWork, ChangeFields
<1>. QED BY <1>1, AtWork DEF Adds, Added

\* The bytes left by a removal.
LEMMA RemovedIs ==
    ASSUME NEW s \in Seq(Byte), NEW a \in Nat, NEW k \in Nat \ {0}, a + k <= Len(s)
    PROVE  /\ [i \in 1 .. Len(s) - k |-> s[IF i <= a THEN i ELSE i + k]] \in Seq(Byte)
           /\ Len([i \in 1 .. Len(s) - k |-> s[IF i <= a THEN i ELSE i + k]])
                = Len(s) - k
           /\ [i \in 1 .. Len(s) - k |-> s[IF i <= a THEN i ELSE i + k]]
                = SubSeq(s, 1, a) \o SubSeq(s, a + k + 1, Len(s))
<1>. DEFINE t == [i \in 1 .. Len(s) - k |-> s[IF i <= a THEN i ELSE i + k]]
            u == SubSeq(s, 1, a)
            v == SubSeq(s, a + k + 1, Len(s))
<1>0. Len(s) \in Nat /\ Len(s) - k \in Nat
  OBVIOUS
<1>1. \A i \in 1 .. Len(s) - k : s[IF i <= a THEN i ELSE i + k] \in Byte
  BY <1>0
<1>2. t \in Seq(Byte) /\ Len(t) = Len(s) - k
  BY <1>0, <1>1
<1>3. /\ u \in Seq(Byte) /\ Len(u) = a
      /\ \A i \in 1 .. a : u[i] = s[i]
  BY <1>0
<1>4. /\ v \in Seq(Byte) /\ Len(v) = Len(s) - a - k
      /\ \A i \in 1 .. Len(s) - a - k : v[i] = s[a + k + i]
  <2>1. CASE a + k + 1 <= Len(s) BY <1>0, <2>1
  <2>2. CASE a + k = Len(s)
    <3>1. v = << >> BY <1>0, <2>2, SubSeqEmpty
    <3>. QED BY <1>0, <2>2, <3>1
  <2>. QED BY <1>0, <2>1, <2>2
<1>. HIDE DEF u, v
<1>5. /\ u \o v \in Seq(Byte) /\ Len(u \o v) = Len(s) - k
      /\ \A i \in 1 .. Len(s) - k :
             (u \o v)[i] = IF i <= a THEN u[i] ELSE v[i - a]
  BY <1>0, <1>3, <1>4
<1>6. \A i \in 1 .. Len(s) - k : t[i] = (u \o v)[i]
  <2>1. ASSUME NEW i \in 1 .. Len(s) - k
        PROVE  t[i] = (u \o v)[i]
    <3>1. CASE i <= a BY <1>0, <1>3, <1>5, <2>1, <3>1
    <3>2. CASE i > a
      <4>1. i - a \in 1 .. Len(s) - a - k /\ a + k + (i - a) = i + k
        BY <1>0, <2>1, <3>2
      <4>2. v[i - a] = s[i + k] BY <1>4, <4>1
      <4>3. (u \o v)[i] = v[i - a] BY <1>5, <2>1, <3>2
      <4>4. t[i] = s[i + k] BY <2>1, <3>2
      <4>. QED BY <4>2, <4>3, <4>4
    <3>3. i <= a \/ i > a BY <1>0, <2>1
    <3>. QED BY <3>1, <3>2, <3>3, Zenon
  <2>. HIDE DEF t
  <2>. QED BY <2>1
<1>. HIDE DEF t
<1>7. t = u \o v
  BY <1>2, <1>5, <1>6, SeqEqual
<1>. QED BY <1>2, <1>7 DEF t, u, v

\* The bytes left.
LEMMA LeftIs ==
    ASSUME NEW o \in Change, NEW s \in Seq(Byte),
           o.name \in {"clear", "remove", "split"},
           o.name = "remove" => o.start < Len(s)
    PROVE  /\ Left(o, s) \in Seq(Byte) /\ Len(Left(o, s)) <= Len(s)
           /\ o.name = "clear" => Left(o, s) = << >>
           /\ o.name = "remove" =>
                  \E n, m \in 1 .. Len(s) :
                      /\ n <= m
                      /\ Left(o, s) = SubSeq(s, 1, n - 1) \o SubSeq(s, m + 1, Len(s))
           /\ o.name = "split" =>
                  \E n \in 0 .. Len(s) :
                      /\ n = split_len(o, Len(s)) /\ n <= o.len
                      /\ Left(o, s) = SubSeq(s, n + 1, Len(s))
<1>0. Len(s) \in Nat OBVIOUS
<1>1. CASE o.name = "clear"
  <2>1. Left(o, s) = << >> BY <1>1 DEF Left
  <2>. QED BY <1>0, <1>1, <2>1
<1>2. CASE o.name = "remove"
  <2>1. PICK a, k : a = o.start /\ k = remove_len(o, Len(s))
    OBVIOUS
  <2>2. a \in Nat /\ k \in Nat \ {0} /\ a + k <= Len(s)
    BY <1>0, <1>2, <2>1, ChangeFields DEF remove_len
  <2>3. Left(o, s) = [i \in 1 .. Len(s) - k |-> s[IF i <= a THEN i ELSE i + k]]
    BY <1>2, <2>1 DEF Left
  <2>4. /\ Left(o, s) \in Seq(Byte) /\ Len(Left(o, s)) = Len(s) - k
        /\ Left(o, s) = SubSeq(s, 1, a) \o SubSeq(s, a + k + 1, Len(s))
    <3>1. /\ [i \in 1 .. Len(s) - k |-> s[IF i <= a THEN i ELSE i + k]] \in Seq(Byte)
          /\ Len([i \in 1 .. Len(s) - k |-> s[IF i <= a THEN i ELSE i + k]])
                 = Len(s) - k
          /\ [i \in 1 .. Len(s) - k |-> s[IF i <= a THEN i ELSE i + k]]
                 = SubSeq(s, 1, a) \o SubSeq(s, a + k + 1, Len(s))
      BY <2>2, RemovedIs
    <3>. QED BY <2>3, <3>1
  <2>5. /\ a + 1 \in 1 .. Len(s) /\ a + k \in 1 .. Len(s) /\ a + 1 <= a + k
        /\ (a + 1) - 1 = a
    BY <1>0, <2>2
  <2>6. \E n, m \in 1 .. Len(s) :
            /\ n <= m
            /\ Left(o, s) = SubSeq(s, 1, n - 1) \o SubSeq(s, m + 1, Len(s))
    <3>1. Left(o, s) = SubSeq(s, 1, (a + 1) - 1) \o SubSeq(s, (a + k) + 1, Len(s))
      BY <2>4, <2>5
    <3>. QED BY <2>5, <3>1
  <2>7. Left(o, s) \in Seq(Byte) /\ Len(Left(o, s)) <= Len(s)
    <3>1. Left(o, s) \in Seq(Byte) /\ Len(Left(o, s)) = Len(s) - k
      BY <2>4
    <3>. QED BY <1>0, <2>2, <3>1
  <2>8. o.name # "clear" /\ o.name # "split"
    BY <1>2
  <2>. QED BY <2>6, <2>7, <2>8, Zenon
<1>3. CASE o.name = "split"
  <2>1. PICK n : n = split_len(o, Len(s))
    OBVIOUS
  <2>2. n \in 0 .. Len(s) /\ n <= o.len
    BY <1>0, <1>3, <2>1, ChangeFields DEF split_len
  <2>3. Left(o, s) = SubSeq(s, n + 1, Len(s))
    BY <1>3, <2>1 DEF Left
  <2>4. Left(o, s) \in Seq(Byte) /\ Len(Left(o, s)) <= Len(s)
    <3>1. CASE n + 1 <= Len(s)
      BY <1>0, <2>2, <2>3, <3>1
    <3>2. CASE n = Len(s)
      <4>1. Left(o, s) = << >> BY <1>0, <2>3, <3>2, SubSeqEmpty
      <4>. QED BY <1>0, <4>1
    <3>. QED BY <1>0, <2>2, <3>1, <3>2
  <2>. QED BY <1>3, <2>1, <2>2, <2>3, <2>4
<1>. QED BY <1>1, <1>2, <1>3

-----------------------------------------------------------------------------
(* What it is to the holder.                                               *)

\* Bytes are appended.
LEMMA AddsAre ==
    ASSUME BufferInv, NEW r \in Ref, pc[r] \in Changing, Adds(r),
           Val' = [Val EXCEPT ![r] = Val[r] \o Added(op[r])]
    PROVE  Private!Next
<1>0. Val[r] # NoData /\ Val[r] \in Seq(Byte)
  BY AtWork
<1>1. CASE op[r].name = "append"
  <2>1. op[r].byte \in Byte /\ Added(op[r]) = <<op[r].byte>>
    BY <1>1, AtWork, AddedIs, ChangeFields
  <2>2. Append(Val[r], op[r].byte) = Val[r] \o <<op[r].byte>>
    BY <1>0, <2>1
  <2>3. Private!Put(r, op[r].byte)
    BY <1>0, <2>1, <2>2 DEF Private!Put, Private!Valid, Val
  <2>. QED BY <2>1, <2>3 DEF Private!Next
<1>2. CASE op[r].name = "concat"
  <2>1. /\ op[r].with \in Ref /\ Val[op[r].with] # NoData
        /\ Added(op[r]) = Val[op[r].with]
    BY <1>2, AtWork, AddedIs
  <2>2. Private!Concat(r, op[r].with)
    BY <1>0, <2>1 DEF Private!Concat, Private!Valid, Val
  <2>. QED BY <2>1, <2>2 DEF Private!Next
<1>. QED BY <1>1, <1>2 DEF Adds

\* Bytes are removed.
LEMMA CutIs ==
    ASSUME BufferInv, NEW r \in Ref, pc[r] \in Changing,
           op[r].name \in {"clear", "remove"},
           Val' = [Val EXCEPT ![r] = Left(op[r], Val[r])]
    PROVE  Private!Next
<1>0. /\ Val[r] # NoData /\ Val[r] \in Seq(Byte) /\ op[r] \in Change
      /\ op[r].name = "remove" => op[r].start < Len(Val[r])
  BY AtWork
<1>1. CASE op[r].name = "clear"
  <2>1. Left(op[r], Val[r]) = << >> BY <1>0, <1>1, LeftIs
  <2>2. Private!Clear(r)
    BY <1>0, <2>1 DEF Private!Clear, Private!Valid, Val
  <2>. QED BY <2>2 DEF Private!Next
<1>2. CASE op[r].name = "remove"
  <2>1. PICK n, m \in 1 .. Len(Val[r]) :
            /\ n <= m
            /\ Left(op[r], Val[r])
                 = SubSeq(Val[r], 1, n - 1) \o SubSeq(Val[r], m + 1, Len(Val[r]))
    BY <1>0, <1>2, LeftIs
  <2>2. r \in Private!Valid BY <1>0 DEF Private!Valid, Val
  <2>3. Private!Cut(r, n, m)
    BY <2>1, <2>2 DEF Private!Cut, Val
  <2>. QED BY <2>1, <2>2, <2>3 DEF Private!Next, Val
<1>. QED BY <1>1, <1>2

\* A buffer is split.
LEMMA SplitIs ==
    ASSUME BufferInv, NEW r \in Ref, pc[r] \in Changing, op[r].name = "split",
           Val' = [Val EXCEPT ![op[r].with] = Part(r), ![r] = Left(op[r], Val[r])]
    PROVE  Private!Next
<1>0. /\ Val[r] # NoData /\ Val[r] \in Seq(Byte) /\ op[r] \in Change
      /\ Val[r] = Bytes(r) /\ op[r].with \in Ref /\ op[r].with # r
      /\ Val[op[r].with] = NoData
  BY AtWork
<1>1. PICK n \in 0 .. Len(Val[r]) :
          /\ n = split_len(op[r], Len(Val[r]))
          /\ Left(op[r], Val[r]) = SubSeq(Val[r], n + 1, Len(Val[r]))
  BY <1>0, LeftIs
<1>2. Part(r) = SubSeq(Val[r], 1, n)
  BY <1>0, <1>1 DEF Part
<1>3. r \in Private!Valid /\ op[r].with \notin Private!Valid
  BY <1>0 DEF Private!Valid, Val
<1>4. Private!Split(r, op[r].with, n)
  <2>1. Val' = [Val EXCEPT ![op[r].with] = SubSeq(Val[r], 1, n),
                           ![r] = SubSeq(@, n + 1, Len(@))]
    BY <1>0, <1>1, <1>2
  <2>. QED BY <1>3, <2>1 DEF Private!Split, Val
<1>. QED BY <1>0, <1>1, <1>3, <1>4 DEF Private!Next, Val

-----------------------------------------------------------------------------
(* A change is made.                                                       *)

\* An operation that fails.
LEMMA FailStep ==
    ASSUME BufferInv, NEW r \in Ref, pc[r] \in Changing, Released(r),
           UNCHANGED <<m_ptr, heap>>
    PROVE  BufferInv' /\ Val' = Val
<1>0. Types /\ Counts BY DEF BufferInv
<1>1. pc[r] \in Busy /\ op[r].with \in Ref /\ old[r] = NoData
  BY AtWork
<1>2. /\ Moves(r, op[r].with) /\ Working(r)' /\ ThreadTypes'
      /\ old'[r] = NoData /\ \A s \in Ref \ {r} : old'[s] = old[s]
  BY <1>1, EndMoves
<1>3. HeapTypes'
  BY <1>0 DEF HeapTypes, Types, heap
<1>4. old' = old
  BY <1>0, <1>1 DEF Released, Types
<1>5. Counts'
  BY <1>0, <1>4 DEF Counts, Counted, heap
<1>6. \A s \in Ref : Val'[s] = Val[s]
  BY Undisturbed DEF heap
<1>7. Leaves(r, op[r].with)
  BY <1>1, LeavesOthers DEF heap
<1>8. BufferInv'
  BY <1>1, <1>2, <1>3, <1>5, <1>7, Together
<1>. QED BY <1>6, <1>8, SameVal

\* A change in place.
LEMMA EditStep ==
    ASSUME BufferInv, NEW r \in Ref, pc[r] = "change", Released(r),
           NEW v \in Seq(Byte), Len(v) <= m_cap[m_ptr[r]],
           m_data' = [m_data EXCEPT ![m_ptr[r]] = v],
           UNCHANGED <<m_ptr, m_ref, m_cap>>
    PROVE  BufferInv' /\ Val' = [Val EXCEPT ![r] = v]
<1>0. Types /\ Counts BY DEF BufferInv
<1>. DEFINE d == m_ptr[r]
<1>1. pc[r] \in Busy /\ op[r].with \in Ref /\ old[r] = NoData /\ d \in Data
  BY AtWork DEF Changing
<1>2. /\ Moves(r, op[r].with) /\ Working(r)' /\ ThreadTypes'
  BY <1>1, EndMoves
<1>3. HeapTypes'
  BY <1>0, <1>1 DEF HeapTypes, Types
<1>4. old' = old
  BY <1>0, <1>1 DEF Released, Types
<1>5. \A e \in Data : m_data'[e] = IF e = d THEN v ELSE m_data[e]
  BY <1>0, <1>1 DEF Types
<1>6. Counts'
  <2>1. ASSUME NEW e \in Data
        PROVE  Counted(e)'
    <3>1. Counted(e) BY <1>0 DEF Counts
    <3>. QED BY <1>4, <1>5, <3>1 DEF Counted
  <2>. QED BY <2>1 DEF Counts
<1>7. \A s \in Ref \ {r} : m_ptr[s] # d
  BY SoleOwner
<1>8. ASSUME NEW s \in Ref \ {r}
      PROVE  m_ptr[s] \in Data => m_data'[m_ptr[s]] = m_data[m_ptr[s]]
  BY <1>5, <1>7
<1>9. Leaves(r, op[r].with)
  BY <1>1, <1>8, LeavesOthers
<1>10. BufferInv'
  BY <1>1, <1>2, <1>3, <1>6, <1>9, Together
<1>11. Val'[r] = v
  <2>1. m_ptr'[r] = d /\ d # NoData BY <1>1, DataFacts
  <2>. QED BY <1>1, <1>5, <2>1, ValBecomes
<1>12. \A s \in Ref \ {r} : Val'[s] = Val[s]
  <2>1. \A s \in Ref : m_ptr[s] # NoData => m_ptr[s] \in Data
    BY <1>0 DEF Types
  <2>. QED BY <1>8, <2>1, Undisturbed
<1>. QED BY <1>10, <1>11, <1>12, OneVal

\* A change in place that moves the data.
LEMMA GrowStep ==
    ASSUME BufferInv, NEW r \in Ref, pc[r] = "change", Released(r), Free # {},
           NEW v \in Seq(Byte), NEW cap \in Nat, Len(v) <= cap,
           m_ref' = [m_ref EXCEPT ![m_ptr[r]] = 0, ![New] = 1],
           m_cap' = [m_cap EXCEPT ![m_ptr[r]] = NoData, ![New] = cap],
           m_data' = [m_data EXCEPT ![m_ptr[r]] = Garbage, ![New] = v],
           m_ptr' = [m_ptr EXCEPT ![r] = New]
    PROVE  BufferInv' /\ Val' = [Val EXCEPT ![r] = v]
<1>0. Types /\ Counts BY DEF BufferInv
<1>. DEFINE d == m_ptr[r]
<1>1. pc[r] \in Busy /\ op[r].with \in Ref /\ old[r] = NoData /\ d \in Data
  BY AtWork DEF Changing
<1>2. /\ Moves(r, op[r].with) /\ Working(r)' /\ ThreadTypes'
  BY <1>1, EndMoves
<1>3. /\ New \in Data /\ m_cap[New] = NoData /\ m_ref[New] = 0
      /\ \A s \in Ref : m_ptr[s] # New /\ old[s] # New
  BY <1>0, NewIsFree
<1>4. HeapTypes'
  BY <1>0, <1>1, <1>3, DataFacts DEF HeapTypes, Types, Garbage
<1>5. old' = old
  BY <1>0, <1>1 DEF Released, Types
<1>6. /\ New # d
      /\ m_ref'[New] = 1 /\ m_cap'[New] = cap /\ m_data'[New] = v
      /\ m_ref'[d] = 0 /\ m_cap'[d] = NoData
      /\ m_ptr'[r] = New /\ \A s \in Ref \ {r} : m_ptr'[s] = m_ptr[s]
  BY <1>0, <1>1, <1>3 DEF Types
<1>6a. \A e \in Data \ {New, d} :
         m_ref'[e] = m_ref[e] /\ m_cap'[e] = m_cap[e] /\ m_data'[e] = m_data[e]
  BY <1>0, <1>1, <1>3 DEF Types
<1>7. /\ \A s \in Ref \ {r} : m_ptr[s] # d
      /\ m_ref[d] = 1 /\ \A s \in Ref : old[s] # d
  BY SoleOwner
<1>8. Counts'
  <2>1. ASSUME NEW e \in Data
        PROVE  Counted(e)'
    <3>1. /\ Counted(e) /\ m_ref[e] \in Nat /\ Count(m_ptr, e) \in Nat
          /\ Count(old, e) \in Nat
      BY <1>0, Holders DEF Counts
    <3>2. CASE e = New
      <4>1. Count(m_ptr', e) = Count(m_ptr, e) + 1
        BY <1>3, <1>6, <3>2, PtrCount
      <4>2. Count(m_ptr, e) = 0 /\ Count(old, e) = 0
        BY <1>3, <3>1, <3>2 DEF Counted
      <4>3. cap # NoData BY DataFacts
      <4>. QED BY <1>5, <1>6, <3>2, <4>1, <4>2, <4>3 DEF Counted
    <3>3. CASE e = d /\ e # New
      <4>1. Count(m_ptr', e) = Count(m_ptr, e) - 1
        BY <1>6, <3>3, PtrCount
      <4>2. Count(old, e) = 0 BY <1>7, <3>3, CountFacts
      <4>3. m_ref[e] = 1 BY <1>7, <3>3
      <4>. QED BY <1>5, <1>6, <3>1, <3>3, <4>1, <4>2, <4>3 DEF Counted
    <3>4. CASE e # d /\ e # New
      <4>1. Count(m_ptr', e) = Count(m_ptr, e)
        BY <1>6, <3>4, PtrCount
      <4>. QED BY <1>5, <1>6a, <3>1, <3>4, <4>1 DEF Counted
    <3>. QED BY <3>2, <3>3, <3>4
  <2>. QED BY <2>1 DEF Counts
<1>9. ASSUME NEW s \in Ref \ {r}, m_ptr[s] \in Data
      PROVE  /\ m_data'[m_ptr[s]] = m_data[m_ptr[s]]
             /\ m_ref'[m_ptr[s]] = m_ref[m_ptr[s]]
  BY <1>3, <1>7, <1>9, <1>6a
<1>10. Leaves(r, op[r].with)
  <2>1. \A s \in Ref : pc[s] = "change" => m_ptr[s] \in Data
    BY SoleOwner
  <2>2. ASSUME NEW s \in Ref \ {r, op[r].with}
        PROVE  /\ m_ptr'[s] = m_ptr[s]
               /\ m_ptr[s] \in Data => m_data'[m_ptr[s]] = m_data[m_ptr[s]]
               /\ pc[s] = "change" => m_ref'[m_ptr[s]] = m_ref[m_ptr[s]]
    BY <1>6, <1>9, <2>1
  <2>. QED BY <1>1, <2>2, LeavesOthers
<1>11. BufferInv'
  BY <1>1, <1>2, <1>4, <1>8, <1>10, Together
<1>12. Val'[r] = v
  <2>1. m_ptr'[r] = New /\ New # NoData BY <1>3, <1>6, DataFacts
  <2>2. m_data'[m_ptr'[r]] = v BY <1>6
  <2>. QED BY <2>1, <2>2, ValBecomes
<1>13. \A s \in Ref \ {r} : Val'[s] = Val[s]
  <2>1. \A s \in Ref : m_ptr[s] # NoData => m_ptr[s] \in Data
    BY <1>0 DEF Types
  <2>. QED BY <1>6, <1>9, <2>1, Undisturbed
<1>. QED BY <1>11, <1>12, <1>13, OneVal

\* A change in a copy.
LEMMA CopyStep ==
    ASSUME BufferInv, NEW r \in Ref, pc[r] = "copy", Free # {},
           NEW v \in Seq(Byte), NEW cap \in Nat, Len(v) <= cap,
           CopyTo(r, New, cap, v)
    PROVE  BufferInv' /\ Val' = [Val EXCEPT ![r] = v]
<1>0. Types /\ Counts BY DEF BufferInv
<1>. DEFINE d == m_ptr[r]
<1>1. pc[r] \in Busy /\ op[r].with \in Ref /\ old[r] = NoData /\ d \in Data
  BY AtWork DEF Changing
<1>2. /\ Moves(r, op[r].with) /\ Working(r)' /\ ThreadTypes'
      /\ old'[r] = d /\ \A s \in Ref \ {r} : old'[s] = old[s]
  BY <1>1, CopyMoves DEF CopyTo
<1>3. /\ New \in Data /\ m_cap[New] = NoData /\ m_ref[New] = 0
      /\ \A s \in Ref : m_ptr[s] # New /\ old[s] # New
  BY <1>0, NewIsFree
<1>4. HeapTypes'
  BY <1>0, <1>3 DEF HeapTypes, Types, CopyTo, buffer_new
<1>5. /\ \A e \in Data :
             /\ m_ref'[e] = IF e = New THEN 1 ELSE m_ref[e]
             /\ m_cap'[e] = IF e = New THEN cap ELSE m_cap[e]
             /\ m_data'[e] = IF e = New THEN v ELSE m_data[e]
      /\ m_ptr'[r] = New /\ \A s \in Ref \ {r} : m_ptr'[s] = m_ptr[s]
  BY <1>0, <1>3 DEF Types, CopyTo, buffer_new
<1>6. Counts'
  <2>1. ASSUME NEW e \in Data
        PROVE  Counted(e)'
    <3>1. /\ Counted(e) /\ m_ref[e] \in Nat /\ Count(m_ptr, e) \in Nat
          /\ Count(old, e) \in Nat
      BY <1>0, Holders DEF Counts
    <3>2. CASE e = New
      <4>1. Count(m_ptr', e) = Count(m_ptr, e) + 1
        BY <1>3, <1>5, <3>2, PtrCount
      <4>2. Count(m_ptr, e) = 0 /\ Count(old, e) = 0
        BY <1>3, <3>1, <3>2 DEF Counted
      <4>3. Count(old', e) = Count(old, e)
        BY <1>2, <1>3, <3>2, OldCount
      <4>. QED BY <1>5, <3>2, <4>1, <4>2, <4>3, DataFacts DEF Counted
    <3>3. CASE e = d /\ e # New
      <4>1. Count(m_ptr', e) = Count(m_ptr, e) - 1
        BY <1>5, <3>3, PtrCount
      <4>2. Count(old', e) = Count(old, e) + 1
        BY <1>1, <1>2, <3>3, DataFacts, OldCount
      <4>. QED BY <1>5, <3>1, <3>3, <4>1, <4>2 DEF Counted
    <3>4. CASE e # d /\ e # New
      <4>1. Count(m_ptr', e) = Count(m_ptr, e)
        BY <1>5, <3>4, PtrCount
      <4>2. Count(old', e) = Count(old, e)
        BY <1>1, <1>2, <3>4, DataFacts, OldCount
      <4>. QED BY <1>5, <3>1, <3>4, <4>1, <4>2 DEF Counted
    <3>. QED BY <3>2, <3>3, <3>4
  <2>. QED BY <2>1 DEF Counts
<1>7. ASSUME NEW s \in Ref, m_ptr[s] \in Data
      PROVE  /\ m_data'[m_ptr[s]] = m_data[m_ptr[s]]
             /\ m_ref'[m_ptr[s]] = m_ref[m_ptr[s]]
  BY <1>3, <1>5, <1>7
<1>8. Leaves(r, op[r].with)
  <2>1. \A s \in Ref : pc[s] = "change" => m_ptr[s] \in Data
    BY SoleOwner
  <2>. QED BY <1>1, <1>5, <1>7, <2>1, LeavesOthers
<1>9. BufferInv'
  BY <1>1, <1>2, <1>4, <1>6, <1>8, Together
<1>10. Val'[r] = v
  <2>1. m_ptr'[r] = New /\ New # NoData BY <1>3, <1>5, DataFacts
  <2>. QED BY <1>3, <1>5, <2>1, ValBecomes
<1>11. \A s \in Ref \ {r} : Val'[s] = Val[s]
  <2>1. \A s \in Ref : m_ptr[s] # NoData => m_ptr[s] \in Data
    BY <1>0 DEF Types
  <2>. QED BY <1>5, <1>7, <2>1, Undisturbed
<1>. QED BY <1>9, <1>10, <1>11, OneVal

\* A split in place.
LEMMA SplitStep ==
    ASSUME BufferInv, NEW r \in Ref, split(r)
    PROVE  /\ BufferInv'
           /\ Val' = [Val EXCEPT ![op[r].with] = Part(r), ![r] = Left(op[r], Val[r])]
<1>0. Types /\ Counts BY DEF BufferInv
<1>. DEFINE d == m_ptr[r]
            w == op[r].with
            v == Left(op[r], Val[r])
<1>1. /\ pc[r] = "change" /\ op[r].name = "split" /\ Free # {} /\ Released(r)
      /\ m_ref' = [m_ref EXCEPT ![New] = 1]
      /\ m_cap' = [m_cap EXCEPT ![New] = op[r].len]
      /\ m_data' = [m_data EXCEPT ![d] = Left(op[r], @), ![New] = Part(r)]
      /\ m_ptr' = [m_ptr EXCEPT ![w] = New]
  BY DEF split
<1>2. /\ pc[r] \in Busy /\ op[r] \in Change /\ w \in Ref /\ w # r
      /\ old[r] = NoData /\ d \in Data /\ m_ptr[w] = NoData
      /\ Val[r] = Bytes(r) /\ Val[r] = m_data[d] /\ Val[r] \in Seq(Byte)
      /\ m_cap[d] \in Nat /\ Len(Val[r]) <= m_cap[d]
  BY <1>1, AtWork DEF Changing
<1>3. /\ Moves(r, w) /\ Working(r)' /\ ThreadTypes'
  BY <1>1, <1>2, EndMoves
<1>4. /\ New \in Data /\ m_cap[New] = NoData /\ m_ref[New] = 0
      /\ \A s \in Ref : m_ptr[s] # New /\ old[s] # New
  BY <1>0, <1>1, NewIsFree
<1>5. PICK n \in 0 .. Len(Val[r]) : n = split_len(op[r], Len(Val[r])) /\ n <= op[r].len
  BY <1>1, <1>2, LeftIs
<1>6. Part(r) = SubSeq(Val[r], 1, n) /\ op[r].len \in Nat
  BY <1>1, <1>2, <1>5, ChangeFields DEF Part
<1>7. Part(r) \in Seq(Byte) /\ Len(Part(r)) <= op[r].len
  <2>1. CASE n = 0
    <3>1. Part(r) = << >> BY <1>2, <1>6, <2>1, SubSeqEmpty
    <3>. QED BY <1>6, <3>1, DataFacts
  <2>2. CASE n >= 1
    BY <1>2, <1>5, <1>6, <2>2
  <2>. QED BY <1>2, <2>1, <2>2
<1>8. v \in Seq(Byte) /\ Len(v) <= Len(Val[r])
  BY <1>1, <1>2, LeftIs
<1>. HIDE DEF v
<1>9. Left(op[r], m_data[d]) = v
  BY <1>2 DEF v
<1>10. HeapTypes'
  BY <1>0, <1>1, <1>2, <1>4, <1>6, <1>7, <1>8, <1>9 DEF HeapTypes, Types
<1>11. old' = old
  BY <1>0, <1>1, <1>2 DEF Released, Types
<1>12. /\ New # d
       /\ m_ref'[New] = 1 /\ m_cap'[New] = op[r].len /\ m_data'[New] = Part(r)
       /\ m_ref'[d] = m_ref[d] /\ m_cap'[d] = m_cap[d] /\ m_data'[d] = v
       /\ m_ptr'[w] = New /\ \A s \in Ref \ {w} : m_ptr'[s] = m_ptr[s]
  BY <1>0, <1>1, <1>2, <1>4, <1>9 DEF Types
<1>13. \A e \in Data \ {New, d} :
         m_ref'[e] = m_ref[e] /\ m_cap'[e] = m_cap[e] /\ m_data'[e] = m_data[e]
  BY <1>0, <1>1 DEF Types
<1>14. \A s \in Ref \ {r} : m_ptr[s] # d
  BY <1>1, SoleOwner
<1>15. Counts'
  <2>1. ASSUME NEW e \in Data
        PROVE  Counted(e)'
    <3>1. /\ Counted(e) /\ m_ref[e] \in Nat /\ Count(m_ptr, e) \in Nat
          /\ Count(old, e) \in Nat
      BY <1>0, Holders DEF Counts
    <3>2. CASE e = New
      <4>1. Count(m_ptr', e) = Count(m_ptr, e) + 1
        BY <1>2, <1>4, <1>12, <3>2, PtrCount
      <4>2. Count(m_ptr, e) = 0 /\ Count(old, e) = 0
        BY <1>4, <3>1, <3>2 DEF Counted
      <4>3. op[r].len # NoData BY <1>6, DataFacts
      <4>. QED BY <1>7, <1>11, <1>12, <3>2, <4>1, <4>2, <4>3 DEF Counted
    <3>3. CASE e # New
      <4>1. Count(m_ptr', e) = Count(m_ptr, e)
        BY <1>2, <1>12, <3>3, DataFacts, PtrCount
      <4>2. CASE e = d
        <5>1. Len(v) <= m_cap[d] BY <1>2, <1>8
        <5>. QED BY <1>11, <1>12, <3>1, <4>1, <4>2, <5>1 DEF Counted
      <4>3. CASE e # d
        BY <1>11, <1>13, <3>1, <3>3, <4>1, <4>3 DEF Counted
      <4>. QED BY <4>2, <4>3
    <3>. QED BY <3>2, <3>3
  <2>. QED BY <2>1 DEF Counts
<1>16. ASSUME NEW s \in Ref \ {r}, m_ptr[s] \in Data
       PROVE  /\ m_data'[m_ptr[s]] = m_data[m_ptr[s]]
              /\ m_ref'[m_ptr[s]] = m_ref[m_ptr[s]]
  BY <1>4, <1>13, <1>14, <1>16
<1>17. Leaves(r, w)
  <2>1. \A s \in Ref : pc[s] = "change" => m_ptr[s] \in Data
    BY SoleOwner
  <2>2. ASSUME NEW s \in Ref \ {r, w}
        PROVE  /\ m_ptr'[s] = m_ptr[s]
               /\ m_ptr[s] \in Data => m_data'[m_ptr[s]] = m_data[m_ptr[s]]
               /\ pc[s] = "change" => m_ref'[m_ptr[s]] = m_ref[m_ptr[s]]
    BY <1>12, <1>16, <2>1
  <2>. QED BY <1>2, <2>2, LeavesOthers
<1>18. BufferInv'
  BY <1>2, <1>3, <1>10, <1>15, <1>17, Together
<1>19. Val'[r] = v /\ Val'[w] = Part(r)
  <2>1. /\ m_ptr'[r] # NoData /\ m_ptr'[w] # NoData
        /\ m_data'[m_ptr'[r]] = v /\ m_data'[m_ptr'[w]] = Part(r)
    BY <1>2, <1>4, <1>12, DataFacts
  <2>. QED BY <1>2, <2>1, ValBecomes
<1>20. \A s \in Ref \ {r, w} : Val'[s] = Val[s]
  BY <1>17 DEF Leaves
<1>21. Val' = [Val EXCEPT ![w] = Part(r), ![r] = v]
  BY <1>2, <1>19, <1>20 DEF Val
<1>. QED BY <1>18, <1>21 DEF v

\* Two free data.
LEMMA TwoAreFree ==
    ASSUME Types, Counts, Cardinality(Free) > 1
    PROVE  /\ Free # {}
           /\ Min(Free \ {New}) \in Data /\ Min(Free \ {New}) # New
           /\ m_cap[Min(Free \ {New})] = NoData /\ m_ref[Min(Free \ {New})] = 0
           /\ \A s \in Ref : /\ m_ptr[s] # Min(Free \ {New})
                             /\ old[s] # Min(Free \ {New})
<1>1. Free # {} /\ Free # {New}
  <2>1. Cardinality({}) = 0 /\ Cardinality({New}) = 1
    BY FS_EmptySet, FS_Singleton
  <2>. QED BY <2>1
<1>2. Free \ {New} # {} /\ Free \ {New} \subseteq Data
  BY <1>1 DEF Free
<1>3. Min(Free \ {New}) \in Free \ {New}
  BY <1>2, MinChosen
<1>. QED BY <1>1, <1>3, Holders DEF Free

\* A split of shared data.
LEMMA CopySplitStep ==
    ASSUME BufferInv, NEW r \in Ref, copy_split(r)
    PROVE  /\ BufferInv'
           /\ Val' = [Val EXCEPT ![op[r].with] = Part(r), ![r] = Left(op[r], Val[r])]
<1>0. Types /\ Counts BY DEF BufferInv
<1>. DEFINE d == m_ptr[r]
            w == op[r].with
            v == Left(op[r], Bytes(r))
            a == New
            b == Min(Free \ {New})
            cap == IF v = << >> THEN DEFAULT_BUFFER_CAPACITY ELSE Len(Bytes(r))
<1>1. /\ pc[r] = "copy" /\ op[r].name = "split" /\ Cardinality(Free) > 1
      /\ m_ref' = [m_ref EXCEPT ![a] = 1, ![b] = 1]
      /\ m_cap' = [m_cap EXCEPT ![a] = op[r].len, ![b] = cap]
      /\ m_data' = [m_data EXCEPT ![a] = Part(r), ![b] = v]
      /\ m_ptr' = [m_ptr EXCEPT ![w] = a, ![r] = b]
      /\ old' = [old EXCEPT ![r] = d]
      /\ Releasing(r, w)
  BY DEF copy_split
<1>2. /\ pc[r] \in Busy /\ op[r] \in Change /\ w \in Ref /\ w # r
      /\ old[r] = NoData /\ d \in Data /\ m_ptr[w] = NoData
      /\ Val[r] = Bytes(r) /\ Val[r] \in Seq(Byte)
  BY <1>1, AtWork DEF Changing
<1>3. /\ Moves(r, w) /\ Working(r)' /\ ThreadTypes'
      /\ old'[r] = d /\ \A s \in Ref \ {r} : old'[s] = old[s]
  BY <1>1, <1>2, CopyMoves
<1>4. /\ a \in Data /\ m_cap[a] = NoData /\ m_ref[a] = 0
      /\ \A s \in Ref : m_ptr[s] # a /\ old[s] # a
      /\ b \in Data /\ b # a /\ m_cap[b] = NoData /\ m_ref[b] = 0
      /\ \A s \in Ref : m_ptr[s] # b /\ old[s] # b
  BY <1>0, <1>1, NewIsFree, TwoAreFree
<1>5. PICK n \in 0 .. Len(Val[r]) : n = split_len(op[r], Len(Val[r])) /\ n <= op[r].len
  BY <1>1, <1>2, LeftIs
<1>6. Part(r) = SubSeq(Val[r], 1, n) /\ op[r].len \in Nat
  BY <1>1, <1>2, <1>5, ChangeFields DEF Part
<1>7. Part(r) \in Seq(Byte) /\ Len(Part(r)) <= op[r].len
  <2>1. CASE n = 0
    <3>1. Part(r) = << >> BY <1>2, <1>6, <2>1, SubSeqEmpty
    <3>. QED BY <1>6, <3>1, DataFacts
  <2>2. CASE n >= 1
    BY <1>2, <1>5, <1>6, <2>2
  <2>. QED BY <1>2, <2>1, <2>2
<1>8. v \in Seq(Byte) /\ Len(v) <= Len(Bytes(r))
  BY <1>1, <1>2, LeftIs
<1>9. cap \in Nat /\ Len(v) <= cap
  BY <1>2, <1>8, DataFacts
<1>. HIDE DEF v, cap, a, b
<1>10. HeapTypes'
  BY <1>0, <1>1, <1>4, <1>6, <1>7, <1>8, <1>9 DEF HeapTypes, Types
<1>11. /\ m_ref'[a] = 1 /\ m_cap'[a] = op[r].len /\ m_data'[a] = Part(r)
       /\ m_ref'[b] = 1 /\ m_cap'[b] = cap /\ m_data'[b] = v
       /\ m_ptr'[w] = a /\ m_ptr'[r] = b
       /\ \A s \in Ref \ {r, w} : m_ptr'[s] = m_ptr[s]
  BY <1>0, <1>1, <1>2, <1>4 DEF Types
<1>12. \A e \in Data \ {a, b} :
         m_ref'[e] = m_ref[e] /\ m_cap'[e] = m_cap[e] /\ m_data'[e] = m_data[e]
  BY <1>0, <1>1 DEF Types
<1>13. Counts'
  <2>1. ASSUME NEW e \in Data
        PROVE  Counted(e)'
    <3>1. /\ Counted(e) /\ m_ref[e] \in Nat /\ Count(m_ptr, e) \in Nat
          /\ Count(old, e) \in Nat
      BY <1>0, Holders DEF Counts
    <3>3. m_ptr[w] # e BY <1>2, DataFacts
    <3>4. CASE e = a \/ e = b
      <4>1. Count(m_ptr', e) = Count(m_ptr, e) + 1
        <5>1. m_ptr[r] # e /\ (m_ptr'[r] = e <=> m_ptr'[w] # e)
          BY <1>4, <1>11, <3>4
        <5>. QED BY <1>2, <1>11, <3>3, <5>1, PtrCounts
      <4>2. Count(m_ptr, e) = 0 /\ Count(old, e) = 0
        BY <1>4, <3>1, <3>4 DEF Counted
      <4>3. Count(old', e) = Count(old, e)
        BY <1>3, <1>4, <3>4, OldCount
      <4>4. op[r].len # NoData /\ cap # NoData BY <1>6, <1>9, DataFacts
      <4>. QED BY <1>7, <1>9, <1>11, <3>4, <4>1, <4>2, <4>3, <4>4 DEF Counted
    <3>5. CASE e = d
      <4>0. e # a /\ e # b BY <1>2, <1>4, <3>5
      <4>1. Count(m_ptr', e) = Count(m_ptr, e) - 1
        BY <1>2, <1>11, <3>3, <3>5, <4>0, PtrCounts
      <4>2. Count(old', e) = Count(old, e) + 1
        BY <1>2, <1>3, <3>5, DataFacts, OldCount
      <4>3. m_ref'[e] = m_ref[e] /\ m_cap'[e] = m_cap[e] /\ m_data'[e] = m_data[e]
        BY <1>12, <4>0
      <4>4. m_ref[e] = Count(m_ptr', e) + Count(old', e)
        BY <3>1, <4>1, <4>2 DEF Counted
      <4>. QED BY <3>1, <4>3, <4>4 DEF Counted
    <3>6. CASE e # a /\ e # b /\ e # d
      <4>1. Count(m_ptr', e) = Count(m_ptr, e)
        BY <1>2, <1>11, <3>3, <3>6, PtrCounts
      <4>2. Count(old', e) = Count(old, e)
        BY <1>2, <1>3, <3>6, DataFacts, OldCount
      <4>. QED BY <1>12, <3>1, <3>6, <4>1, <4>2 DEF Counted
    <3>. QED BY <3>4, <3>5, <3>6
  <2>. QED BY <2>1 DEF Counts
<1>14. ASSUME NEW s \in Ref, m_ptr[s] \in Data
       PROVE  /\ m_data'[m_ptr[s]] = m_data[m_ptr[s]]
              /\ m_ref'[m_ptr[s]] = m_ref[m_ptr[s]]
  BY <1>4, <1>12, <1>14
<1>15. Leaves(r, w)
  <2>1. \A s \in Ref : pc[s] = "change" => m_ptr[s] \in Data
    BY SoleOwner
  <2>2. ASSUME NEW s \in Ref \ {r, w}
        PROVE  /\ m_ptr'[s] = m_ptr[s]
               /\ m_ptr[s] \in Data => m_data'[m_ptr[s]] = m_data[m_ptr[s]]
               /\ pc[s] = "change" => m_ref'[m_ptr[s]] = m_ref[m_ptr[s]]
    BY <1>11, <1>14, <2>1
  <2>. QED BY <1>2, <2>2, LeavesOthers
<1>16. BufferInv'
  BY <1>2, <1>3, <1>10, <1>13, <1>15, Together
<1>17. Val'[r] = v /\ Val'[w] = Part(r)
  <2>1. /\ m_ptr'[r] # NoData /\ m_ptr'[w] # NoData
        /\ m_data'[m_ptr'[r]] = v /\ m_data'[m_ptr'[w]] = Part(r)
    BY <1>2, <1>4, <1>11, DataFacts
  <2>. QED BY <1>2, <2>1, ValBecomes
<1>18. \A s \in Ref \ {r, w} : Val'[s] = Val[s]
  BY <1>15 DEF Leaves
<1>19. Val' = [Val EXCEPT ![w] = Part(r), ![r] = v]
  BY <1>2, <1>17, <1>18 DEF Val
<1>. QED BY <1>2, <1>16, <1>19 DEF v

-----------------------------------------------------------------------------
(* Any step.                                                               *)

\* A thread goes on with what it does.
LEMMA ContinueStep ==
    ASSUME BufferInv, NEW r \in Ref, Continue(r)
    PROVE  BufferInv' /\ (Private!Next \/ Val' = Val)
<1>0. Types /\ Counts BY DEF BufferInv
<1>1. CASE release_last(r)
  <2>1. CASE m_ref[old[r]] = 1
    BY <1>1, <2>1, FreeStep DEF release_last, Releases
  <2>2. CASE m_ref[old[r]] # 1
    BY <1>1, <2>2, RelayStep DEF release_last
  <2>. QED BY <2>1, <2>2
<1>2. CASE atomic_dec(r)
  <2>1. CASE m_ref[old[r]] = 1
    BY <1>2, <2>1, FreeStep DEF atomic_dec, Releases
  <2>2. CASE m_ref[old[r]] # 1
    BY <1>2, <2>2, DecStep DEF atomic_dec, Releases
  <2>. QED BY <2>1, <2>2
<1>3. CASE append_fails(r)
  BY <1>3, FailStep DEF append_fails, Changing
<1>4. CASE append_fits(r)
  <2>. DEFINE v == Val[r] \o Added(op[r])
  <2>1. pc[r] = "change" /\ Adds(r) /\ pc[r] \in Changing /\ Released(r)
    BY <1>4 DEF append_fits, Changing
  <2>2. /\ Val[r] = Bytes(r) /\ Bytes(r) = m_data[m_ptr[r]] /\ Val[r] \in Seq(Byte)
        /\ m_cap[m_ptr[r]] \in Nat
    BY <2>1, AtWork
  <2>3. Added(op[r]) \in Seq(Byte) BY <2>1, AddedIs
  <2>4. v \in Seq(Byte) /\ Len(v) = Len(Val[r]) + Len(Added(op[r]))
    BY <2>2, <2>3
  <2>5. Len(v) <= m_cap[m_ptr[r]]
    <3>1. Len(Added(op[r])) <= m_cap[m_ptr[r]] - Len(Val[r])
      BY <1>4, <2>2 DEF append_fits
    <3>2. Len(Added(op[r])) \in Nat /\ Len(Val[r]) \in Nat
      BY <2>2, <2>3
    <3>. HIDE DEF v
    <3>. QED BY <2>2, <2>4, <3>1, <3>2
  <2>6. /\ m_data' = [m_data EXCEPT ![m_ptr[r]] = v]
        /\ UNCHANGED <<m_ptr, m_ref, m_cap>>
    BY <1>4, <2>2 DEF append_fits
  <2>. HIDE DEF v
  <2>7. BufferInv' /\ Val' = [Val EXCEPT ![r] = v]
    BY <2>1, <2>4, <2>5, <2>6, EditStep
  <2>. QED BY <2>1, <2>7, AddsAre DEF v
<1>5. CASE append_grows(r)
  <2>. DEFINE v == Val[r] \o Added(op[r])
              cap == buffer_gen_capacity(Len(Bytes(r)), Len(Added(op[r])))
  <2>1. pc[r] = "change" /\ Adds(r) /\ pc[r] \in Changing /\ Released(r) /\ Free # {}
    BY <1>5 DEF append_grows, Changing
  <2>2. Val[r] = Bytes(r) /\ Val[r] \in Seq(Byte)
    BY <2>1, AtWork
  <2>3. Added(op[r]) \in Seq(Byte) BY <2>1, AddedIs
  <2>4. v \in Seq(Byte) /\ Len(v) = Len(Val[r]) + Len(Added(op[r]))
    BY <2>2, <2>3
  <2>5. cap \in Nat /\ Len(v) <= cap
    <3>1. Len(Bytes(r)) \in Nat /\ Len(Added(op[r])) \in Nat BY <2>2, <2>3
    <3>2. cap > 0 BY <1>5 DEF append_grows
    <3>3. cap \in Nat /\ (cap # 0 => Len(Bytes(r)) + Len(Added(op[r])) <= cap)
      BY <3>1, CapacityEnough
    <3>. HIDE DEF cap, v
    <3>. QED BY <2>2, <2>4, <3>2, <3>3
  <2>6. /\ m_ref' = [m_ref EXCEPT ![m_ptr[r]] = 0, ![New] = 1]
        /\ m_cap' = [m_cap EXCEPT ![m_ptr[r]] = NoData, ![New] = cap]
        /\ m_data' = [m_data EXCEPT ![m_ptr[r]] = Garbage, ![New] = v]
        /\ m_ptr' = [m_ptr EXCEPT ![r] = New]
    BY <1>5, <2>2 DEF append_grows
  <2>. HIDE DEF v, cap
  <2>7. BufferInv' /\ Val' = [Val EXCEPT ![r] = v]
    BY <2>1, <2>4, <2>5, <2>6, GrowStep
  <2>. QED BY <2>1, <2>7, AddsAre DEF v
<1>6. CASE cut(r)
  <2>. DEFINE v == Left(op[r], Val[r])
  <2>1. /\ pc[r] = "change" /\ pc[r] \in Changing /\ Released(r)
        /\ op[r].name \in {"clear", "remove"}
    BY <1>6 DEF cut, Changing
  <2>2. /\ Val[r] = Bytes(r) /\ Bytes(r) = m_data[m_ptr[r]] /\ Val[r] \in Seq(Byte)
        /\ m_cap[m_ptr[r]] \in Nat /\ Len(Bytes(r)) <= m_cap[m_ptr[r]]
        /\ op[r] \in Change /\ (op[r].name = "remove" => op[r].start < Len(Bytes(r)))
    BY <2>1, AtWork
  <2>3. v \in Seq(Byte) /\ Len(v) <= Len(Val[r])
    BY <2>1, <2>2, LeftIs
  <2>4. /\ m_data' = [m_data EXCEPT ![m_ptr[r]] = v]
        /\ UNCHANGED <<m_ptr, m_ref, m_cap>>
    BY <1>6, <2>2 DEF cut
  <2>. HIDE DEF v
  <2>5. Len(v) <= m_cap[m_ptr[r]] BY <2>2, <2>3
  <2>6. BufferInv' /\ Val' = [Val EXCEPT ![r] = v]
    BY <2>1, <2>3, <2>4, <2>5, EditStep
  <2>. QED BY <2>1, <2>6, CutIs DEF v
<1>7. CASE split(r)
  <2>1. pc[r] \in Changing /\ op[r].name = "split"
    BY <1>7 DEF split, Changing
  <2>. QED BY <1>7, <2>1, SplitStep, SplitIs
<1>8. CASE copy_append(r)
  <2>. DEFINE v == Val[r] \o Added(op[r])
              cap == buffer_gen_capacity(Len(Bytes(r)), Len(Added(op[r])))
  <2>1. pc[r] = "copy" /\ Adds(r) /\ pc[r] \in Changing /\ Free # {}
    BY <1>8 DEF copy_append, Changing
  <2>2. Val[r] = Bytes(r) /\ Val[r] \in Seq(Byte)
    BY <2>1, AtWork
  <2>3. Added(op[r]) \in Seq(Byte) BY <2>1, AddedIs
  <2>4. v \in Seq(Byte) /\ Len(v) = Len(Val[r]) + Len(Added(op[r]))
    BY <2>2, <2>3
  <2>5. cap \in Nat /\ Len(v) <= cap
    <3>1. Len(Bytes(r)) \in Nat /\ Len(Added(op[r])) \in Nat BY <2>2, <2>3
    <3>2. cap > 0 BY <1>8 DEF copy_append
    <3>3. cap \in Nat /\ (cap # 0 => Len(Bytes(r)) + Len(Added(op[r])) <= cap)
      BY <3>1, CapacityEnough
    <3>. HIDE DEF cap, v
    <3>. QED BY <2>2, <2>4, <3>2, <3>3
  <2>6. CopyTo(r, New, cap, v)
    BY <1>8, <2>2 DEF copy_append
  <2>. HIDE DEF v, cap
  <2>7. BufferInv' /\ Val' = [Val EXCEPT ![r] = v]
    BY <2>1, <2>4, <2>5, <2>6, CopyStep
  <2>. QED BY <2>1, <2>7, AddsAre DEF v
<1>9. CASE copy_cut(r)
  <2>. DEFINE v == Left(op[r], Bytes(r))
              n == Len(Bytes(r))
              cap == IF op[r].name = "clear" THEN n
                     ELSE IF n > 0 /\ v = << >> THEN DEFAULT_BUFFER_CAPACITY
                     ELSE Len(v)
  <2>1. /\ pc[r] = "copy" /\ pc[r] \in Changing /\ Free # {}
        /\ op[r].name \in {"clear", "remove"}
        /\ CopyTo(r, New, cap, v)
    BY <1>9 DEF copy_cut, Changing
  <2>2. /\ Val[r] = Bytes(r) /\ Val[r] \in Seq(Byte)
        /\ op[r] \in Change /\ (op[r].name = "remove" => op[r].start < Len(Bytes(r)))
    BY <2>1, AtWork
  <2>3. /\ v \in Seq(Byte) /\ Len(v) <= Len(Val[r])
        /\ op[r].name = "clear" => v = << >>
    BY <2>1, <2>2, LeftIs
  <2>. HIDE DEF v
  <2>4. cap \in Nat /\ Len(v) <= cap
    <3>1. CASE op[r].name = "clear"
      <4>1. cap = n BY <3>1
      <4>. QED BY <2>2, <2>3, <3>1, <4>1
    <3>2. CASE op[r].name # "clear" /\ n > 0 /\ v = << >>
      <4>1. cap = DEFAULT_BUFFER_CAPACITY BY <3>2
      <4>. QED BY <3>2, <4>1, DataFacts
    <3>3. CASE op[r].name # "clear" /\ ~ (n > 0 /\ v = << >>)
      <4>1. cap = Len(v) BY <3>3
      <4>. QED BY <2>3, <4>1
    <3>. QED BY <3>1, <3>2, <3>3
  <2>. HIDE DEF cap
  <2>5. BufferInv' /\ Val' = [Val EXCEPT ![r] = v]
    BY <2>1, <2>3, <2>4, CopyStep
  <2>. QED BY <2>1, <2>2, <2>5, CutIs DEF v
<1>10. CASE copy_split(r)
  <2>1. pc[r] \in Changing /\ op[r].name = "split"
    BY <1>10 DEF copy_split, Changing
  <2>. QED BY <1>10, <2>1, CopySplitStep, SplitIs
<1>. QED BY <1>1, <1>2, <1>3, <1>4, <1>5, <1>6, <1>7, <1>8, <1>9, <1>10 DEF Continue

\* Every step keeps the invariant, and is a step of private buffers or none.
LEMMA BufferStep ==
    ASSUME BufferInv, [BufferNext]_bufferVars
    PROVE  BufferInv' /\ (Private!Next \/ Val' = Val)
<1>1. CASE UNCHANGED bufferVars
  <2>1. /\ UNCHANGED <<m_ptr, m_ref, m_cap, m_data>> /\ UNCHANGED <<pc, op, old>>
    BY <1>1 DEF bufferVars, heap, thread
  <2>2. Val' = Val BY <2>1 DEF Val, Valid, Bytes
  <2>3. BufferInv'
    BY <2>1, <2>2 DEF BufferInv, Types, Working, Lending, Counts, Counted
  <2>. QED BY <2>2, <2>3
<1>2. ASSUME NEW r \in Ref, Start(r)
      PROVE  BufferInv' /\ (Private!Next \/ Val' = Val)
  <2>1. CASE create(r)
    BY <1>2, <2>1, CreateStep DEF Private!Next
  <2>2. CASE \E s \in Ref : buffer_grab(r, s)
    BY <1>2, <2>2, GrabStep DEF Private!Next
  <2>3. CASE release(r)
    BY <1>2, <2>3, ReleaseStep DEF Private!Next
  <2>4. CASE \/ append_char(r)
             \/ \E s \in Ref : buffer_concat(r, s)
             \/ buffer_clear(r)
             \/ buffer_remove(r)
             \/ \E s \in Ref : buffer_split(r, s)
    BY <1>2, <2>4, BeginsStep
  <2>. QED BY <1>2, <2>1, <2>2, <2>3, <2>4 DEF Start
<1>3. ASSUME NEW r \in Ref, Continue(r)
      PROVE  BufferInv' /\ (Private!Next \/ Val' = Val)
  BY <1>3, ContinueStep
<1>. QED BY <1>1, <1>2, <1>3 DEF BufferNext

\* At first there are no buffers.
LEMMA InitBuffer == BufferInit => BufferInv /\ Private!Init
<1>. SUFFICES ASSUME BufferInit
              PROVE  BufferInv /\ Private!Init
  OBVIOUS
<1>1. Types
  BY DataFacts DEF BufferInit, Types, Garbage
<1>2. \A r \in Ref : Val[r] = NoData
  BY DEF BufferInit, Val, Valid
<1>3. (\A r \in Ref : Working(r)) /\ Lending
  BY DEF BufferInit, Working, Lending, Busy, Changing, Releases
<1>4. Counts
  <2>1. ASSUME NEW d \in Data
        PROVE  Counted(d)
    <3>1. Count(m_ptr, d) = 0 /\ Count(old, d) = 0
      BY CountFacts, DataFacts DEF BufferInit
    <3>. QED BY <3>1 DEF Counted, BufferInit
  <2>. QED BY <2>1 DEF Counts
<1>5. Private!Init
  BY DEF Private!Init, BufferInit, Valid
<1>. QED BY <1>1, <1>3, <1>4, <1>5 DEF BufferInv

\* The inductive invariant holds.
THEOREM BufferInvariant == BufferSpec => []BufferInv
<1>. QED BY InitBuffer, BufferStep, PTL DEF BufferSpec

-----------------------------------------------------------------------------
(* What it gives.                                                          *)

\* The count that decides whether data is copied or freed is that of the
\* buffers and releases that refer to it, data is freed when the last of them
\* lets go and not before, and bytes never pass the capacity (buffer_release,
\* buffer_grab, buffer_append, buffer_split).
THEOREM CountsAreExact == BufferSpec => []DataExact
<1>1. BufferInv => DataExact
  <2>. SUFFICES ASSUME BufferInv
                PROVE  DataExact
    OBVIOUS
  <2>0. Types /\ Counts BY DEF BufferInv
  <2>1. ASSUME NEW d \in Data
        PROVE  /\ m_ref[d] = Cardinality({r \in Ref : m_ptr[r] = d})
                               + Cardinality({r \in Ref : old[r] = d})
               /\ d \in Free <=> m_ref[d] = 0
               /\ d \notin Free => Len(m_data[d]) <= m_cap[d]
               /\ m_ref[d] \in 0 .. 2 * Cardinality(Ref)
    <3>1. /\ Count(m_ptr, d) \in Nat /\ Count(old, d) \in Nat
          /\ Cardinality(Ref) \in Nat
          /\ Count(m_ptr, d) <= Cardinality(Ref) /\ Count(old, d) <= Cardinality(Ref)
      BY CountFacts
    <3>2. Counted(d) /\ m_ref[d] \in Nat BY <2>0, Holders DEF Counts
    <3>3. m_ref[d] \in 0 .. 2 * Cardinality(Ref)
      BY <3>1, <3>2 DEF Counted
    <3>. QED BY <3>2, <3>3 DEF Counted, Count, Free
  <2>2. BufferTypeOK
    <3>1. m_ref \in [Data -> 0 .. 2 * Cardinality(Ref)]
      BY <2>0, <2>1 DEF Types
    <3>. QED BY <2>0, <3>1 DEF Types, BufferTypeOK, Busy, Changing, Releases
  <2>. QED BY <2>1, <2>2 DEF DataExact
<1>. QED BY <1>1, BufferInvariant, PTL

\* Buffers that share data behave like buffers with bytes of their own, whatever
\* the threads that hold them do at the same time: the copies that buffer.cpp
\* makes before a change are enough.
THEOREM SharingNeverShows == BufferSpec => BuffersPrivate
<1>1. BufferInit => Private!Init
  BY InitBuffer
<1>2. BufferInv /\ [BufferNext]_bufferVars => [Private!Next]_Val
  BY BufferStep
<1>. QED BY <1>1, <1>2, BufferInvariant, PTL DEF BufferSpec, BuffersPrivate, Private!Spec, Val

-----------------------------------------------------------------------------
(* Coroutines.                                                              *)

\* The greatest of a set of numbers that is bounded is one of them.
LEMMA MaxChosen ==
    ASSUME NEW S, NEW n \in Nat, S \subseteq 1 .. n, S # {}
    PROVE  Max(S) \in S
<1>1. PICK T : T = {n - x : x \in S}
  OBVIOUS
<1>2. T \subseteq Nat /\ T # {}
  <2>1. ASSUME NEW x \in S PROVE n - x \in Nat
    <3>1. x \in 1 .. n OBVIOUS
    <3>. QED BY <3>1
  <2>2. T \subseteq Nat
    BY <1>1, <2>1
  <2>3. PICK x \in S : TRUE
    OBVIOUS
  <2>4. n - x \in T
    BY <1>1, <2>3
  <2>. QED BY <2>2, <2>4
<1>3. PICK R : R = OpToRel(<, Nat)
  OBVIOUS
<1>4. IsWellFoundedOn(R, Nat)
  BY <1>3, NatLessThanWellFounded
<1>5. PICK t \in T : \A y \in T : <<y, t>> \notin R
  BY <1>2, <1>4, WFMin
<1>6. ASSUME NEW y \in T PROVE t =< y
  <2>1. <<y, t>> \in R <=> y < t
    BY <1>2, <1>3 DEF OpToRel
  <2>. QED BY <1>2, <1>5, <2>1
<1>7. PICK x \in S : t = n - x
  BY <1>1
<1>8. ASSUME NEW y \in S PROVE y =< x
  <2>1. n - y \in T BY <1>1
  <2>. QED BY <1>7, <1>6, <2>1
<1>9. \E z \in S : \A y \in S : z >= y
  BY <1>7, <1>8
<1>. QED BY <1>9 DEF Max

\* No blocking call is on its way up when a step ends, a callback that runs waits for
\* nothing, and one that waits is still there.
Chains(c) ==
    /\ chain[c] # << >> => Head(chain[c]) = Head(Root)
    /\ sessions[c] # NONE => chain[c] # << >> /\ running # c
    /\ running = c => chain[c] # << >>

CoroutineInv ==
    /\ CoroutineTypeOK
    /\ suspended = {c \in Coro : sessions[c] # NONE}
    /\ m_yielding_depth = 0 /\ m_yielding_finalize = NONE
    /\ \A c \in Coro : Chains(c)

\* What is left of a chain from its root down to the i-th coroutine.
LEMMA ChainCut ==
    ASSUME NEW s \in Seq(Frame), NEW i \in 1 .. Len(s)
    PROVE  /\ SubSeq(s, 1, i) \in Seq(Frame) /\ SubSeq(s, 1, i) # << >>
           /\ Head(SubSeq(s, 1, i)) = Head(s)
<1>1. Len(s) \in Nat
  OBVIOUS
<1>2. SubSeq(s, 1, i) \in Seq(Frame) /\ Len(SubSeq(s, 1, i)) = i
      /\ SubSeq(s, 1, i)[1] = s[1]
  BY <1>1
<1>. QED BY <1>1, <1>2

\* The chain without its innermost coroutine.
LEMMA ChainFront ==
    ASSUME NEW s \in Seq(Frame), s # << >>
    PROVE  /\ Len(s) \in Nat \ {0} /\ Front(s) \in Seq(Frame)
           /\ Len(s) = 1 => Front(s) = << >>
           /\ Len(s) # 1 => Front(s) # << >> /\ Head(Front(s)) = Head(s)
<1>1. Len(s) \in Nat \ {0}
  OBVIOUS
<1>2. Front(s) = SubSeq(s, 1, Len(s) - 1)
  BY DEF Front
<1>3. CASE Len(s) = 1
  <2>1. Front(s) = << >> BY <1>1, <1>2, <1>3
  <2>. QED BY <1>1, <1>3, <2>1
<1>4. CASE Len(s) # 1
  <2>0. PICK n : n = Len(s) OBVIOUS
  <2>1. Len(s) - 1 \in 1 .. Len(s)
    BY <1>1, <1>4, <2>0
  <2>. QED BY <1>1, <1>2, <1>4, <2>1, ChainCut
<1>. QED BY <1>3, <1>4

\* What changes for the chain of one callback only.
LEMMA OneChain ==
    ASSUME CoroutineInv, NEW c \in Coro, NEW q \in Seq(Frame), NEW f,
           NEW status \in {"OK", "ENOCONTEXT", "EYIELD"},
           f \in {"none", "returned", "thrown", "lost", "crashed"},
           running = NONE \/ running = c,
           chain' = [chain EXCEPT ![c] = q],
           fate' = [fate EXCEPT ![c] = f],
           q # << >> => Head(q) = Head(Root),
           m_yielding_depth' = 0, m_yielding_finalize' = NONE,
           m_yielding_status' = status,
           \/ /\ running' = IF q = << >> THEN NONE ELSE c
              /\ suspended' = suspended \ {c}
              /\ sessions' = [sessions EXCEPT ![c] = NONE]
           \/ /\ running' = NONE /\ q # << >>
              /\ suspended' = suspended \cup {c}
              /\ \E call \in Calls : sessions' = [sessions EXCEPT ![c] = call]
    PROVE  CoroutineInv'
<1>. USE CoroutineAssumption
<1>1. /\ chain \in [Coro -> Seq(Frame)] /\ sessions \in [Coro -> Calls \cup {NONE}]
      /\ fate \in [Coro -> {"none", "returned", "thrown", "lost", "crashed"}]
      /\ suspended \subseteq Coro /\ running \in Coro \cup {NONE}
      /\ suspended = {d \in Coro : sessions[d] # NONE}
      /\ \A d \in Coro : Chains(d)
  BY DEF CoroutineInv, CoroutineTypeOK
<1>2. /\ chain' \in [Coro -> Seq(Frame)] /\ chain'[c] = q
      /\ \A d \in Coro \ {c} : chain'[d] = chain[d]
      /\ fate' \in [Coro -> {"none", "returned", "thrown", "lost", "crashed"}]
  BY <1>1
<1>3. /\ sessions' \in [Coro -> Calls \cup {NONE}]
      /\ \A d \in Coro \ {c} : sessions'[d] = sessions[d]
      /\ running' \in {NONE, c}
  <2>1. CASE sessions' = [sessions EXCEPT ![c] = NONE]
    BY <1>1, <2>1
  <2>2. ASSUME NEW call \in Calls, sessions' = [sessions EXCEPT ![c] = call]
        PROVE  /\ sessions' \in [Coro -> Calls \cup {NONE}]
               /\ \A d \in Coro \ {c} : sessions'[d] = sessions[d]
    BY <1>1, <2>2
  <2>. QED BY <2>1, <2>2
<1>4. suspended' = {d \in Coro : sessions'[d] # NONE} /\ suspended' \subseteq Coro
  <2>1. CASE sessions' = [sessions EXCEPT ![c] = NONE] /\ suspended' = suspended \ {c}
    BY <1>1, <2>1
  <2>2. ASSUME NEW call \in Calls, sessions' = [sessions EXCEPT ![c] = call],
               suspended' = suspended \cup {c}
        PROVE  suspended' = {d \in Coro : sessions'[d] # NONE} /\ suspended' \subseteq Coro
    <3>1. call # NONE BY <1>1 DEF Calls
    <3>. QED BY <1>1, <2>2, <3>1
  <2>. QED BY <2>1, <2>2
<1>5. ASSUME NEW d \in Coro PROVE Chains(d)'
  <2>1. CASE d = c
    BY <1>1, <1>2, <1>3, <2>1 DEF Chains
  <2>2. CASE d # c
    BY <1>1, <1>2, <1>3, <2>2 DEF Chains
  <2>. QED BY <2>1, <2>2
<1>6. \A d \in Coro : chain'[d] # << >> => Head(chain'[d]) = Head(Root)
  BY <1>5 DEF Chains
<1>7. CoroutineTypeOK'
  BY <1>2, <1>3, <1>4, <1>6 DEF CoroutineTypeOK
<1>. QED BY <1>4, <1>5, <1>7 DEF CoroutineInv

\* The answer, or the error, of a call goes down to the coroutine that made it.
LEMMA ResumeKeeps ==
    ASSUME CoroutineInv, NEW c \in Coro, NEW i \in 1 .. Len(chain[c]), NEW call,
           NEW ok, NEW status, NEW new \in {"OK", "ENOCONTEXT", "EYIELD"},
           running = NONE \/ running = c,
           Resume(c, i, call, ok, status),
           sessions' = [sessions EXCEPT ![c] = NONE],
           m_yielding_depth' = 0, m_yielding_finalize' = NONE,
           m_yielding_status' = new
    PROVE  CoroutineInv'
<1>1. /\ chain \in [Coro -> Seq(Frame)] /\ chain[c] \in Seq(Frame)
      /\ fate \in [Coro -> {"none", "returned", "thrown", "lost", "crashed"}]
      /\ Len(chain[c]) \in Nat
  BY DEF CoroutineInv, CoroutineTypeOK
<1>2. chain[c] # << >> /\ Head(chain[c]) = Head(Root)
  BY <1>1 DEF CoroutineInv, Chains
<1>3. running' = c /\ suspended' = suspended \ {c}
  BY DEF Resume
<1>. DEFINE wraps == {k \in i .. Len(chain[c]) - 1 : chain[c][k + 1].how = "wrap"}
<1>4. CASE wraps = {}
  <2>1. chain' = chain /\ fate' = [fate EXCEPT ![c] = yield_continue(call, ok, status)]
    BY <1>4 DEF Resume
  <2>2. chain' = [chain EXCEPT ![c] = chain[c]]
    BY <1>1, <2>1
  <2>3. yield_continue(call, ok, status) \in {"thrown", "returned"}
    BY DEF yield_continue
  <2>. QED BY <1>1, <1>2, <1>3, <2>1, <2>2, <2>3, OneChain
<1>5. CASE wraps # {}
  <2>1. /\ chain' = [chain EXCEPT ![c] = SubSeq(chain[c], 1, Min(wraps))]
        /\ fate' = [fate EXCEPT ![c] = "lost"]
    BY <1>1, <1>5 DEF Resume
  <2>2. wraps \subseteq Nat /\ wraps \subseteq 1 .. Len(chain[c])
    BY <1>1
  <2>3. Min(wraps) \in 1 .. Len(chain[c])
    <3>1. Min(wraps) \in wraps
      BY <1>5, <2>2, LeastChosen
    <3>. QED BY <2>2, <3>1
  <2>4. PICK q : q = SubSeq(chain[c], 1, Min(wraps))
    OBVIOUS
  <2>5. q \in Seq(Frame) /\ q # << >> /\ Head(q) = Head(Root)
    BY <1>1, <1>2, <2>3, <2>4, ChainCut
  <2>. QED BY <1>1, <1>3, <2>1, <2>4, <2>5, OneChain
<1>. QED BY <1>4, <1>5

\* A call that finds no way up.
LEMMA StuckKeeps ==
    ASSUME CoroutineInv, NEW c \in Coro, running = c, NEW i \in 1 .. Len(chain[c]),
           NEW call, Stuck(c, i, call)
    PROVE  CoroutineInv'
<1>1. sessions \in [Coro -> Calls \cup {NONE}] /\ sessions[c] = NONE
  BY DEF CoroutineInv, CoroutineTypeOK, Chains
<1>2. CASE call \in {"query", "write"}
  <2>1. fate' = [fate EXCEPT ![c] = "crashed"] /\ UNCHANGED <<chain, running, suspended,
            sessions, m_yielding_depth, m_yielding_finalize, m_yielding_status>>
    BY <1>2 DEF Stuck, sharedVars
  <2>. QED BY <2>1 DEF CoroutineInv, CoroutineTypeOK, Chains
<1>3. CASE call \notin {"query", "write"}
  <2>1. yielding_finalize("EYIELD") /\ Resume(c, i, call, FALSE, "EYIELD")
        /\ sessions' = sessions
    BY <1>3 DEF Stuck
  <2>2. sessions' = [sessions EXCEPT ![c] = NONE]
    BY <1>1, <2>1
  <2>3. m_yielding_depth' = 0 /\ m_yielding_finalize' = NONE
        /\ m_yielding_status' = "EYIELD"
    BY <2>1 DEF yielding_finalize
  <2>. QED BY <2>1, <2>2, <2>3, ResumeKeeps
<1>. QED BY <1>2, <1>3

\* A call on its way up.
LEMMA YieldUpKeeps ==
    ASSUME CoroutineInv, NEW c \in Coro, running = c, NEW call \in Calls,
           NEW sent \in BOOLEAN, YieldUp(c, call, sent)
    PROVE  CoroutineInv'
<1>1. /\ sessions \in [Coro -> Calls \cup {NONE}] /\ sessions[c] = NONE
      /\ chain \in [Coro -> Seq(Frame)] /\ chain[c] \in Seq(Frame)
      /\ fate \in [Coro -> {"none", "returned", "thrown", "lost", "crashed"}]
      /\ chain[c] # << >> /\ Len(chain[c]) \in Nat \ {0}
      /\ Head(chain[c]) = Head(Root)
  BY DEF CoroutineInv, CoroutineTypeOK, Chains
<1>. DEFINE held == {i \in 2 .. Len(chain[c]) : chain[c][i].held}
<1>2. CASE held # {}
  <2>1. held \subseteq 1 .. Len(chain[c])
    BY <1>1
  <2>2. Max(held) \in held
    BY <1>1, <1>2, <2>1, MaxChosen
  <2>3. Stuck(c, Max(held), call)
    BY <1>2 DEF YieldUp
  <2>4. PICK i : i = Max(held)
    OBVIOUS
  <2>5. i \in 1 .. Len(chain[c]) /\ Stuck(c, i, call)
    BY <2>1, <2>2, <2>3, <2>4
  <2>. QED BY <2>5, StuckKeeps
<1>3. CASE held = {} /\ sent
  <2>1. /\ yielding_finalize("OK")
        /\ sessions' = [sessions EXCEPT ![c] = call]
        /\ suspended' = suspended \cup {c}
        /\ running' = NONE /\ chain' = chain /\ fate' = fate
    BY <1>3 DEF YieldUp
  <2>2. /\ chain' = [chain EXCEPT ![c] = chain[c]] /\ fate' = [fate EXCEPT ![c] = fate[c]]
        /\ fate[c] \in {"none", "returned", "thrown", "lost", "crashed"}
    BY <1>1, <2>1
  <2>3. m_yielding_depth' = 0 /\ m_yielding_finalize' = NONE
        /\ m_yielding_status' = "OK"
    BY <2>1 DEF yielding_finalize
  <2>. QED BY <1>1, <2>1, <2>2, <2>3, OneChain
<1>4. CASE held = {} /\ ~sent
  <2>1. yielding_finalize("ENOCONTEXT") /\ Resume(c, 1, call, FALSE, "ENOCONTEXT")
        /\ sessions' = sessions
    BY <1>4 DEF YieldUp
  <2>2. sessions' = [sessions EXCEPT ![c] = NONE]
    BY <1>1, <2>1
  <2>3. m_yielding_depth' = 0 /\ m_yielding_finalize' = NONE
        /\ m_yielding_status' = "ENOCONTEXT"
    BY <2>1 DEF yielding_finalize
  <2>4. 1 \in 1 .. Len(chain[c])
    BY <1>1
  <2>. QED BY <2>1, <2>2, <2>3, <2>4, ResumeKeeps
<1>. QED BY <1>2, <1>3, <1>4

\* The innermost coroutine of the running callback returns, or yields to the one that
\* resumed it.
LEMMA FrontKeeps ==
    ASSUME CoroutineInv, NEW c \in Coro, running = c,
           chain' = [chain EXCEPT ![c] = Front(@)],
           running' = IF Len(chain[c]) = 1 THEN NONE ELSE c,
           UNCHANGED <<suspended, sessions, sharedVars, fate>>
    PROVE  CoroutineInv'
<1>1. /\ sessions \in [Coro -> Calls \cup {NONE}] /\ sessions[c] = NONE
      /\ chain \in [Coro -> Seq(Frame)] /\ chain[c] \in Seq(Frame)
      /\ fate \in [Coro -> {"none", "returned", "thrown", "lost", "crashed"}]
      /\ chain[c] # << >> /\ Head(chain[c]) = Head(Root)
      /\ m_yielding_depth = 0 /\ m_yielding_finalize = NONE
      /\ m_yielding_status \in {"OK", "ENOCONTEXT", "EYIELD"}
      /\ c \notin suspended
  BY DEF CoroutineInv, CoroutineTypeOK, Chains
<1>2. UNCHANGED <<m_yielding_depth, m_yielding_finalize, m_yielding_status>>
  BY DEF sharedVars
<1>3. PICK q : q = Front(chain[c])
  OBVIOUS
<1>4. /\ q \in Seq(Frame)
      /\ Len(chain[c]) = 1 <=> q = << >>
      /\ q # << >> => Head(q) = Head(Root)
  BY <1>1, <1>3, ChainFront
<1>5. chain' = [chain EXCEPT ![c] = q]
  BY <1>1, <1>3
<1>7. running' = IF q = << >> THEN NONE ELSE c
  <2>1. CASE q = << >>
    BY <1>4, <2>1
  <2>2. CASE q # << >>
    BY <1>4, <2>2
  <2>. QED BY <2>1, <2>2
<1>8. /\ m_yielding_depth' = 0 /\ m_yielding_finalize' = NONE
      /\ m_yielding_status' = m_yielding_status
      /\ m_yielding_status \in {"OK", "ENOCONTEXT", "EYIELD"}
  BY <1>1, <1>2
<1>6. /\ suspended' = suspended \ {c} /\ sessions' = [sessions EXCEPT ![c] = NONE]
      /\ fate' = [fate EXCEPT ![c] = fate[c]]
      /\ fate[c] \in {"none", "returned", "thrown", "lost", "crashed"}
  BY <1>1
<1>9. /\ q \in Seq(Frame)
      /\ q # << >> => Head(q) = Head(Root)
      /\ running = NONE \/ running = c
  BY <1>4
<1>. QED BY <1>5, <1>6, <1>7, <1>8, <1>9, OneChain

\* A callback begins, or a coroutine is resumed.
LEMMA DeeperKeeps ==
    ASSUME CoroutineInv, NEW c \in Coro, NEW frame \in Frame,
           \/ running = NONE /\ chain[c] = << >> /\ frame = Head(Root)
           \/ running = c,
           chain' = [chain EXCEPT ![c] = Append(@, frame)],
           running' = c,
           UNCHANGED <<suspended, sessions, sharedVars, fate>>
    PROVE  CoroutineInv'
<1>1. /\ sessions \in [Coro -> Calls \cup {NONE}] /\ sessions[c] = NONE
      /\ chain \in [Coro -> Seq(Frame)] /\ chain[c] \in Seq(Frame)
      /\ fate \in [Coro -> {"none", "returned", "thrown", "lost", "crashed"}]
      /\ chain[c] # << >> => Head(chain[c]) = Head(Root)
      /\ m_yielding_depth = 0 /\ m_yielding_finalize = NONE
      /\ m_yielding_status \in {"OK", "ENOCONTEXT", "EYIELD"}
      /\ c \notin suspended
  BY CoroutineAssumption DEF CoroutineInv, CoroutineTypeOK, Chains
<1>2. UNCHANGED <<m_yielding_depth, m_yielding_finalize, m_yielding_status>>
  BY DEF sharedVars
<1>3. PICK q : q = Append(chain[c], frame)
  OBVIOUS
<1>4. q \in Seq(Frame) /\ q # << >> /\ Len(q) = Len(chain[c]) + 1
  BY <1>1, <1>3
<1>5. Head(q) = Head(Root)
  <2>1. CASE chain[c] = << >>
    <3>1. frame = Head(Root)
      BY <2>1, CoroutineAssumption DEF CoroutineInv, Chains
    <3>2. q = <<frame>>
      BY <1>3, <2>1
    <3>. QED BY <3>1, <3>2
  <2>2. CASE chain[c] # << >>
    <3>1. Len(chain[c]) \in Nat /\ Len(chain[c]) # 0
      BY <1>1, <2>2
    <3>2. q[1] = chain[c][1]
      BY <1>1, <1>3, <3>1
    <3>. QED BY <1>1, <1>4, <2>2, <3>2
  <2>. QED BY <2>1, <2>2
<1>6. /\ suspended' = suspended \ {c} /\ sessions' = [sessions EXCEPT ![c] = NONE]
      /\ fate' = [fate EXCEPT ![c] = fate[c]]
      /\ fate[c] \in {"none", "returned", "thrown", "lost", "crashed"}
      /\ chain' = [chain EXCEPT ![c] = q]
      /\ running' = IF q = << >> THEN NONE ELSE c
  BY <1>1, <1>3, <1>4
<1>7. /\ m_yielding_depth' = 0 /\ m_yielding_finalize' = NONE
      /\ m_yielding_status' = m_yielding_status
      /\ m_yielding_status \in {"OK", "ENOCONTEXT", "EYIELD"}
  BY <1>1, <1>2
<1>8. running = NONE \/ running = c
  OBVIOUS
<1>. QED BY <1>4, <1>5, <1>6, <1>7, <1>8, OneChain

\* A callback sleeps exactly while its blocking call has an answer due
\* (yielding_up, yielding_finalize in lcororep.cpp): for every number of callbacks and
\* depth of coroutines.
THEOREM SleepersAreAwaited == CoroutineSpec => []WaitsForAnswer
<1>1. CoroutineInit => CoroutineInv
  BY CoroutineAssumption DEF CoroutineInit, CoroutineInv, CoroutineTypeOK, Chains
<1>2. ASSUME CoroutineInv, CoroutineNext PROVE CoroutineInv'
  <2>1. PICK c \in Coro :
            \/ start_callback(c)
            \/ \E how \in {"resume", "wrap"}, held \in BOOLEAN : coresume(c, how, held)
            \/ coreturn(c)
            \/ \E call \in Calls, held, sent \in BOOLEAN : block(c, call, held, sent)
            \/ coyield(c)
            \/ \E ok \in BOOLEAN : answer(c, ok)
    BY <1>2 DEF CoroutineNext
  <2>2. CASE start_callback(c)
    <3>1. chain' = [chain EXCEPT ![c] = Append(@, Head(Root))]
      BY <1>2, <2>2 DEF start_callback, Root, CoroutineInv, CoroutineTypeOK
    <3>2. Head(Root) \in Frame
      <4>1. Head(Root) = [how |-> "root", held |-> FALSE]
        BY DEF Root
      <4>2. [how |-> "root", held |-> FALSE] \in Frame
        BY DEF Frame
      <4>. QED BY <4>1, <4>2
    <3>3. /\ running = NONE /\ chain[c] = << >> /\ running' = c
          /\ UNCHANGED <<suspended, sessions, sharedVars, fate>>
      BY <2>2 DEF start_callback
    <3>4. PICK frame \in Frame : frame = Head(Root)
      BY <3>2
    <3>5. chain' = [chain EXCEPT ![c] = Append(@, frame)]
      BY <3>1, <3>4
    <3>. QED BY <1>2, <3>3, <3>4, <3>5, DeeperKeeps
  <2>3. ASSUME NEW how \in {"resume", "wrap"}, NEW held \in BOOLEAN,
               coresume(c, how, held)
        PROVE  CoroutineInv'
    <3>1. [how |-> how, held |-> held] \in Frame
      BY DEF Frame
    <3>. QED BY <1>2, <2>3, <3>1, DeeperKeeps DEF coresume
  <2>4. CASE coreturn(c)
    BY <1>2, <2>4, FrontKeeps DEF coreturn
  <2>5. ASSUME NEW call \in Calls, NEW held \in BOOLEAN, NEW sent \in BOOLEAN,
               block(c, call, held, sent)
        PROVE  CoroutineInv'
    <3>1. CASE held
      <4>1. running = c /\ Stuck(c, Len(chain[c]), call)
        BY <2>5, <3>1 DEF block
      <4>2. Len(chain[c]) \in 1 .. Len(chain[c])
        BY <1>2, <4>1 DEF CoroutineInv, CoroutineTypeOK, Chains
      <4>. QED BY <1>2, <4>1, <4>2, StuckKeeps
    <3>2. CASE ~held
      BY <1>2, <2>5, <3>2, YieldUpKeeps DEF block
    <3>. QED BY <3>1, <3>2
  <2>6. CASE coyield(c)
    <3>1. m_yielding_depth = 0
      BY <1>2 DEF CoroutineInv
    <3>2. /\ running = c /\ chain' = [chain EXCEPT ![c] = Front(@)]
          /\ Len(chain[c]) > 1 /\ running' = c
          /\ UNCHANGED <<suspended, sessions, sharedVars, fate>>
      BY <2>6, <3>1 DEF coyield
    <3>3. running' = IF Len(chain[c]) = 1 THEN NONE ELSE c
      <4>1. Len(chain[c]) # 1
        <5>1. chain[c] \in Seq(Frame)
          BY <1>2 DEF CoroutineInv, CoroutineTypeOK
        <5>2. Len(chain[c]) \in Nat
          BY <5>1
        <5>3. PICK n : n = Len(chain[c])
          OBVIOUS
        <5>4. n \in Nat /\ n > 1
          BY <3>2, <5>2, <5>3
        <5>5. n # 1
          BY <5>4
        <5>. QED BY <5>3, <5>5
      <4>. QED BY <3>2, <4>1
    <3>. QED BY <1>2, <3>2, <3>3, FrontKeeps
  <2>7. ASSUME NEW ok \in BOOLEAN, answer(c, ok)
        PROVE  CoroutineInv'
    <3>1. /\ running = NONE /\ sessions[c] # NONE
          /\ sessions' = [sessions EXCEPT ![c] = NONE]
          /\ Resume(c, 1, sessions[c], ok, m_yielding_status)
          /\ UNCHANGED <<m_yielding_depth, m_yielding_finalize, m_yielding_status>>
      BY <2>7 DEF answer, sharedVars
    <3>2. /\ m_yielding_depth' = 0 /\ m_yielding_finalize' = NONE
          /\ m_yielding_status' \in {"OK", "ENOCONTEXT", "EYIELD"}
      BY <1>2, <3>1 DEF CoroutineInv, CoroutineTypeOK
    <3>3. 1 \in 1 .. Len(chain[c])
      <4>1. chain[c] \in Seq(Frame) /\ chain[c] # << >>
        BY <1>2, <3>1 DEF CoroutineInv, CoroutineTypeOK, Chains
      <4>. QED BY <4>1
    <3>. QED BY <1>2, <3>1, <3>2, <3>3, ResumeKeeps
  <2>. QED BY <2>1, <2>2, <2>3, <2>4, <2>5, <2>6, <2>7
<1>3. ASSUME CoroutineInv, UNCHANGED coroutineVars PROVE CoroutineInv'
  BY <1>3 DEF CoroutineInv, CoroutineTypeOK, Chains, coroutineVars, sharedVars
<1>4. CoroutineInv => WaitsForAnswer
  BY DEF CoroutineInv, WaitsForAnswer
<1>. QED BY <1>1, <1>2, <1>3, <1>4, PTL DEF CoroutineSpec

-----------------------------------------------------------------------------
(* Messages.                                                               *)

\* The elements of an array up to a position are at most all of them.
LEMMA UpToCount ==
    ASSUME NEW n \in Nat, NEW S \in SUBSET (1 .. n), NEW i \in Int
    PROVE  /\ IsFiniteSet(S) /\ Cardinality(S) \in Nat
           /\ IsFiniteSet(UpTo(S, i))
           /\ Cardinality(UpTo(S, i)) \in Nat
           /\ Cardinality(UpTo(S, i)) <= Cardinality(S)
<1>1. IsFiniteSet(S)
  BY FS_Interval, FS_Subset, 1 \in Int, n \in Int
<1>2. UpTo(S, i) \subseteq S
  BY DEF UpTo
<1>. QED BY <1>1, <1>2, FS_Subset, FS_CardinalityType

\* The elements that get data are numbered without a gap: each number is that of one.
LEMMA NumbersUsed ==
    ASSUME NEW n \in Nat, NEW S \in SUBSET (1 .. n), NEW k \in 1 .. Cardinality(S)
    PROVE  \E i \in S : Cardinality(UpTo(S, i)) = k
<1>. DEFINE C(i) == Cardinality(UpTo(S, i))
            T == {i \in 1 .. n : C(i) >= k}
<1>0. \A j \in S : j \in Nat /\ 1 <= j /\ j <= n
  OBVIOUS
<1>1. IsFiniteSet(S) /\ Cardinality(S) \in Nat /\ k \in Nat /\ k >= 1 /\ k <= Cardinality(S)
  <2>1. IsFiniteSet(S) /\ Cardinality(S) \in Nat BY UpToCount, 0 \in Int
  <2>. QED BY <2>1
<1>2. \A i \in Int : IsFiniteSet(UpTo(S, i)) /\ C(i) \in Nat
  BY UpToCount
<1>3. n \in T
  <2>1. Cardinality(S) # 0 BY <1>1
  <2>2. S # {} BY <2>1, <1>1, FS_EmptySet
  <2>3. n \in 1 .. n
    <3>1. PICK j \in S : TRUE BY <2>2
    <3>. QED BY <3>1, <1>0
  <2>4. UpTo(S, n) = S
    <3>1. \A j \in S : j <= n BY <1>0
    <3>. QED BY <3>1, Zenon DEF UpTo
  <2>5. C(n) >= k BY <2>4, <1>1
  <2>. QED BY <2>3, <2>5
<1>4. PICK m \in T : \A y \in T : m =< y
  <2>1. T \subseteq Nat /\ T # {} BY <1>3
  <2>. HIDE DEF T
  <2>. QED BY <2>1, LeastExists
<1>5. m \in 1 .. n /\ C(m) >= k
  BY <1>4
<1>6. C(m - 1) < k
  <2>1. CASE m = 1
    <3>1. UpTo(S, 0) = {}
      <4>1. \A j \in S : ~(j <= 0) BY <1>0
      <4>. QED BY <4>1, Zenon DEF UpTo
    <3>2. C(0) = 0 BY <3>1, FS_EmptySet
    <3>3. m - 1 = 0 BY <2>1
    <3>. HIDE DEF C
    <3>. QED BY <3>2, <3>3, <1>1
  <2>2. CASE m # 1
    <3>1. m - 1 \in 1 .. n /\ ~(m =< m - 1) BY <1>5, <2>2
    <3>2. m - 1 \notin T BY <1>4, <3>1
    <3>3. ~(C(m - 1) >= k) BY <3>1, <3>2
    <3>4. C(m - 1) \in Nat BY <1>2, <3>1
    <3>. HIDE DEF C
    <3>. QED BY <3>3, <3>4, <1>1
  <2>. QED BY <2>1, <2>2
<1>7. IsFiniteSet(UpTo(S, m - 1)) /\ C(m - 1) \in Nat /\ C(m) \in Nat
  BY <1>5, <1>2
<1>8. m \in S
  <2>1. ASSUME m \notin S PROVE FALSE
    <3>1. UpTo(S, m) = UpTo(S, m - 1)
      <4>1. \A j \in S : j <= m <=> j <= m - 1
        <5>. TAKE j \in S
        <5>1. j \in Nat /\ j # m BY <1>0, <2>1
        <5>. QED BY <5>1, <1>5
      <4>. QED BY <4>1, Zenon DEF UpTo
    <3>2. C(m) = C(m - 1) BY <3>1
    <3>. HIDE DEF C
    <3>. QED BY <3>2, <1>5, <1>6, <1>7, <1>1
  <2>. QED BY <2>1
<1>9. UpTo(S, m) = UpTo(S, m - 1) \cup {m} /\ m \notin UpTo(S, m - 1)
  <2>1. \A j \in S : j <= m <=> (j <= m - 1 \/ j = m)
    <3>. TAKE j \in S
    <3>1. j \in Nat BY <1>0
    <3>. QED BY <3>1, <1>5
  <2>2. ~(m <= m - 1) BY <1>5
  <2>. QED BY <2>1, <2>2, <1>8, Zenon DEF UpTo
<1>10. C(m) = C(m - 1) + 1
  BY <1>9, <1>7, FS_AddElement
<1>11. C(m) = k
  <2>. HIDE DEF C
  <2>. QED BY <1>1, <1>5, <1>6, <1>7, <1>10
<1>. QED BY <1>8, <1>11

\* What a message is.
LEMMA MessageIs ==
    ASSUME NEW n \in 1 .. MAX_ARGS, NEW a \in 0 .. MESSAGE_DATA,
           NEW f \in [1 .. n -> 0 .. MESSAGE_DATA]
    PROVE  [array |-> a, data |-> f] \in Message
  BY MessagesAssumption DEF Message

\* A message with one value is an array of one.
LEMMA SingleIs ==
    ASSUME NEW d \in 0 .. MESSAGE_DATA
    PROVE  One(d) \in Message /\ One(d).data[1] = d /\ DOMAIN One(d).data = 1 .. 1
<1>1. <<d>> \in [1 .. 1 -> 0 .. MESSAGE_DATA]
  OBVIOUS
<1>2. 1 \in 1 .. MAX_ARGS /\ 0 \in 0 .. MESSAGE_DATA
  BY MessagesAssumption
<1>3. [array |-> NO_DATA, data |-> <<d>>] \in Message
  BY <1>1, <1>2, MessageIs DEF NO_DATA
<1>. QED BY <1>3 DEF One

\* context_check_message owns all that it makes, when it fails half way too.
LEMMA CheckOwns ==
    ASSUME MessagesTypeOK, NEW n \in 1 .. MAX_ARGS, NEW values \in [1 .. n -> Values],
           NEW was \in Message, NEW r, r = context_check_message(was, values),
           r.made <= MESSAGE_DATA
    PROVE  /\ r.made \in made .. MESSAGE_DATA
           /\ r.message \in Message
           /\ \A d \in made + 1 .. r.made : d \in DataOf(r.message)
<1>1. made \in Nat /\ made <= MESSAGE_DATA /\ MESSAGE_DATA \in Nat /\ n \in Nat
  BY MessagesAssumption DEF MessagesTypeOK
<1>2. Len(values) = n /\ DOMAIN values = 1 .. n
  <2>1. values \in Seq(Values) BY <1>1, SeqDef
  <2>. QED BY <2>1, LenProperties, <1>1
<1>3. CASE n = 1
  <2>1. r = CheckValue(was, values[1])
    BY <1>2, <1>3 DEF context_check_message
  <2>2. CASE Makes(values[1])
    <3>1. r.made = made + 1 /\ r.message = One(made + 1)
      BY <2>1, <2>2 DEF CheckValue, Makes
    <3>2. made + 1 \in 0 .. MESSAGE_DATA BY <1>1, <3>1
    <3>3. r.message \in Message /\ made + 1 \in Range(r.message.data)
      BY <3>1, <3>2, SingleIs DEF Range
    <3>4. made + 1 \in DataOf(r.message)
      BY <3>3, <1>1 DEF DataOf, NO_DATA
    <3>. QED BY <1>1, <3>1, <3>2, <3>3, <3>4
  <2>3. CASE ~Makes(values[1])
    <3>1. r.made = made /\ r.message \in {was, Plain}
      BY <2>1, <2>3 DEF CheckValue
    <3>2. Plain \in Message BY SingleIs, <1>1 DEF Plain, One, NO_DATA
    <3>. QED BY <1>1, <3>1, <3>2
  <2>. QED BY <2>2, <2>3
<1>4. CASE n # 1
  <2>. DEFINE S == Filled(values)
              data == [i \in 1 .. n |-> IF i \in S THEN made + 1 + Cardinality(UpTo(S, i))
                                                   ELSE NO_DATA]
  <2>1. r = CheckArray(values)
    BY <1>2, <1>4 DEF context_check_message
  <2>2. r.made = made + 1 + Cardinality(S) /\ r.message = [array |-> made + 1, data |-> data]
    BY <1>2, <2>1 DEF CheckArray
  <2>3. S \in SUBSET (1 .. n)
    BY <1>2 DEF Filled
  <2>. HIDE DEF S
  <2>4. Cardinality(S) \in Nat /\ \A i \in 1 .. n : /\ Cardinality(UpTo(S, i)) \in Nat
                                                    /\ Cardinality(UpTo(S, i)) <= Cardinality(S)
    <3>1. Cardinality(S) \in Nat BY <1>1, <2>3, UpToCount, 0 \in Int
    <3>2. ASSUME NEW i \in 1 .. n
          PROVE  Cardinality(UpTo(S, i)) \in Nat /\ Cardinality(UpTo(S, i)) <= Cardinality(S)
      <4>1. i \in Int OBVIOUS
      <4>. QED BY <1>1, <2>3, <4>1, UpToCount
    <3>. QED BY <3>1, <3>2
  <2>5. r.made \in made .. MESSAGE_DATA /\ made + 1 \in 0 .. MESSAGE_DATA
    <3>1. PICK c \in Nat : c = Cardinality(S) BY <2>4
    <3>2. r.made = made + 1 + c BY <2>2, <3>1
    <3>. QED BY <1>1, <3>2
  <2>6. \A i \in 1 .. n : made + 1 + Cardinality(UpTo(S, i)) \in 0 .. MESSAGE_DATA
    BY <1>1, <2>2, <2>4
  <2>7. data \in [1 .. n -> 0 .. MESSAGE_DATA]
    BY <1>1, <2>6 DEF NO_DATA
  <2>8. r.message \in Message
    <3>. HIDE DEF data
    <3>. QED BY <2>2, <2>5, <2>7, MessageIs
  <2>9. ASSUME NEW d \in made + 1 .. r.made PROVE d \in DataOf(r.message)
    <3>1. d \in Nat /\ d # NO_DATA BY <1>1, <2>5 DEF NO_DATA
    <3>2. CASE d = made + 1
      BY <2>2, <3>1, <3>2 DEF DataOf
    <3>3. CASE d # made + 1
      <4>1. d - made - 1 \in 1 .. Cardinality(S) BY <1>1, <2>2, <2>4, <3>3
      <4>2. PICK i \in S : Cardinality(UpTo(S, i)) = d - made - 1
        BY <1>1, <2>3, <4>1, NumbersUsed
      <4>3. i \in 1 .. n /\ data[i] = made + 1 + (d - made - 1) BY <2>3, <4>2
      <4>4. data[i] = d BY <4>3, <1>1, <3>1
      <4>5. d \in Range(r.message.data) BY <2>2, <4>3, <4>4 DEF Range
      <4>. QED BY <3>1, <4>5 DEF DataOf
    <3>. QED BY <3>2, <3>3
  <2>. QED BY <2>5, <2>8, <2>9
<1>. QED BY <1>3, <1>4

\* A release counts what it releases, and forgets nothing.
LEMMA ReleaseCounts ==
    ASSUME MessagesTypeOK, NEW S, ReleaseData(S)
    PROVE  /\ released' \in [1 .. MESSAGE_DATA -> Nat]
           /\ \A d \in 1 .. MESSAGE_DATA : released'[d] = 0 => released[d] = 0 /\ d \notin S
<1>1. released \in [1 .. MESSAGE_DATA -> Nat] BY DEF MessagesTypeOK
<1>2. released' = [x \in 1 .. MESSAGE_DATA |-> released[x] + (IF x \in S THEN 1 ELSE 0)]
  BY <1>1 DEF ReleaseData
<1>. QED BY <1>1, <1>2

\* A message that owns the data made with it is sent or released, at once.
LEMMA SentOrReleased ==
    ASSUME DataReleased, NEW m \in Message, made' \in made .. MESSAGE_DATA,
           \A d \in made + 1 .. made' : d \in DataOf(m),
           Len(queue) < MAX_QUEUE, m_yielding_message' \in Message,
           \/ queue' = Append(queue, m) /\ UNCHANGED released
           \/ message_clean(m) /\ UNCHANGED queue
    PROVE  DataReleased'
<1>1. /\ made \in Nat /\ MESSAGE_DATA \in Nat /\ MAX_QUEUE \in Nat /\ queue \in Seq(Message)
      /\ released \in [1 .. MESSAGE_DATA -> Nat] /\ Len(queue) \in Nat /\ made' \in Nat
      /\ made' <= MESSAGE_DATA
  BY MessagesAssumption DEF DataReleased, MessagesTypeOK
<1>2. \A d \in 1 .. made : released[d] = 0 => \E i \in 1 .. Len(queue) : d \in DataOf(queue[i])
  BY DEF DataReleased, NothingLeaks
<1>3. CASE queue' = Append(queue, m) /\ UNCHANGED released
  <2>1. /\ queue' \in Seq(Message) /\ Len(queue') = Len(queue) + 1
        /\ \A i \in 1 .. Len(queue) : queue'[i] = queue[i]
        /\ queue'[Len(queue) + 1] = m
    BY <1>1, <1>3
  <2>2. MessagesTypeOK'
    BY <1>1, <1>3, <2>1 DEF MessagesTypeOK
  <2>3. ASSUME NEW d \in 1 .. made', released'[d] = 0
        PROVE  \E i \in 1 .. Len(queue') : d \in DataOf(queue'[i])
    <3>1. CASE d \in 1 .. made
      <4>1. PICK i \in 1 .. Len(queue) : d \in DataOf(queue[i])
        BY <1>2, <1>3, <2>3, <3>1
      <4>2. i \in 1 .. Len(queue') /\ queue'[i] = queue[i] BY <1>1, <2>1
      <4>. QED BY <4>1, <4>2
    <3>2. CASE d \notin 1 .. made
      <4>1. d \in DataOf(m) BY <1>1, <3>2
      <4>2. Len(queue) + 1 \in 1 .. Len(queue') BY <1>1, <2>1
      <4>. QED BY <2>1, <4>1, <4>2
    <3>. QED BY <3>1, <3>2
  <2>. QED BY <2>2, <2>3 DEF DataReleased, NothingLeaks
<1>4. CASE message_clean(m) /\ UNCHANGED queue
  <2>1. /\ released' \in [1 .. MESSAGE_DATA -> Nat]
        /\ \A d \in 1 .. MESSAGE_DATA : released'[d] = 0 => released[d] = 0 /\ d \notin DataOf(m)
    BY <1>4, ReleaseCounts DEF DataReleased, message_clean
  <2>2. MessagesTypeOK'
    BY <1>1, <1>4, <2>1 DEF MessagesTypeOK
  <2>3. ASSUME NEW d \in 1 .. made', released'[d] = 0
        PROVE  \E i \in 1 .. Len(queue') : d \in DataOf(queue'[i])
    <3>1. released[d] = 0 /\ d \notin DataOf(m) BY <1>1, <2>1, <2>3
    <3>2. d \in 1 .. made BY <1>1, <3>1
    <3>. QED BY <1>2, <1>4, <3>1, <3>2
  <2>. QED BY <2>2, <2>3 DEF DataReleased, NothingLeaks
<1>. QED BY <1>3, <1>4

\* What a message is after it was cleaned.
LEMMA CleanedIs == \A m : Cleaned(m) \in Message
<1>1. 0 \in 0 .. MESSAGE_DATA BY MessagesAssumption
<1>2. One(0) \in Message BY <1>1, SingleIs
<1>. QED BY <1>2 DEF Cleaned, One, NO_DATA

\* context_send keeps the invariant.
LEMMA SendKeeps ==
    ASSUME DataReleased, NEW n \in 1 .. MAX_ARGS, NEW values \in [1 .. n -> Values],
           NEW exists \in BOOLEAN, context_send(values, exists)
    PROVE  DataReleased'
<1>1. PICK r : r = context_check_message(Plain, values)
  OBVIOUS
<1>2. /\ r.made <= MESSAGE_DATA /\ Len(queue) < MAX_QUEUE /\ made' = r.made
      /\ IF r.ok THEN Delivered(r.message, exists)
                 ELSE message_clean(r.message) /\ UNCHANGED queue
      /\ UNCHANGED m_yielding_message
  BY <1>1 DEF context_send
<1>3. MessagesTypeOK /\ Plain \in Message /\ m_yielding_message \in Message
  BY CleanedIs DEF DataReleased, MessagesTypeOK, Plain, Cleaned
<1>4. /\ r.made \in made .. MESSAGE_DATA /\ r.message \in Message
      /\ \A d \in made + 1 .. r.made : d \in DataOf(r.message)
  BY <1>1, <1>2, <1>3, CheckOwns
<1>5. \/ queue' = Append(queue, r.message) /\ UNCHANGED released
      \/ message_clean(r.message) /\ UNCHANGED queue
  BY <1>2 DEF Delivered
<1>. QED BY <1>2, <1>3, <1>4, <1>5, SentOrReleased

\* context_query keeps the invariant.
LEMMA QueryKeeps ==
    ASSUME DataReleased, NEW n \in 1 .. MAX_ARGS, NEW values \in [1 .. n -> Values],
           NEW exists \in BOOLEAN, context_query(values, exists)
    PROVE  DataReleased'
<1>1. PICK r : r = context_check_message(m_yielding_message, values)
  OBVIOUS
<1>2. /\ r.made <= MESSAGE_DATA /\ Len(queue) < MAX_QUEUE /\ made' = r.made
      /\ IF r.ok THEN Delivered(r.message, exists)
                 ELSE message_clean(r.message) /\ UNCHANGED queue
      /\ m_yielding_message' \in {r.message, Cleaned(r.message)}
  BY <1>1 DEF context_query
<1>3. MessagesTypeOK /\ m_yielding_message \in Message
  BY DEF DataReleased, MessagesTypeOK
<1>4. /\ r.made \in made .. MESSAGE_DATA /\ r.message \in Message
      /\ \A d \in made + 1 .. r.made : d \in DataOf(r.message)
  BY <1>1, <1>2, <1>3, CheckOwns
<1>5. \/ queue' = Append(queue, r.message) /\ UNCHANGED released
      \/ message_clean(r.message) /\ UNCHANGED queue
  BY <1>2 DEF Delivered
<1>6. m_yielding_message' \in Message
  BY <1>2, <1>4, CleanedIs
<1>. QED BY <1>2, <1>4, <1>5, <1>6, SentOrReleased

\* process_message keeps the invariant.
LEMMA ProcessKeeps ==
    ASSUME DataReleased, process_message
    PROVE  DataReleased'
<1>1. /\ made \in Nat /\ MESSAGE_DATA \in Nat /\ MAX_QUEUE \in Nat /\ queue \in Seq(Message)
      /\ Len(queue) \in Nat /\ Len(queue) <= MAX_QUEUE /\ made <= MESSAGE_DATA /\ queue # << >>
      /\ queue' = Tail(queue) /\ made' = made /\ m_yielding_message' = m_yielding_message
  BY MessagesAssumption DEF DataReleased, MessagesTypeOK, process_message
<1>2. /\ queue' \in Seq(Message) /\ Len(queue') = Len(queue) - 1
      /\ \A i \in 1 .. Len(queue) - 1 : queue'[i] = queue[i + 1]
      /\ Head(queue) = queue[1]
  BY <1>1
<1>3. /\ released' \in [1 .. MESSAGE_DATA -> Nat]
      /\ \A d \in 1 .. MESSAGE_DATA :
             released'[d] = 0 => released[d] = 0 /\ d \notin DataOf(Head(queue))
  BY ReleaseCounts DEF DataReleased, message_clean, process_message
<1>4. MessagesTypeOK'
  BY <1>1, <1>2, <1>3 DEF DataReleased, MessagesTypeOK
<1>5. ASSUME NEW d \in 1 .. made', released'[d] = 0
      PROVE  \E i \in 1 .. Len(queue') : d \in DataOf(queue'[i])
  <2>1. d \in 1 .. made /\ released[d] = 0 /\ d \notin DataOf(queue[1]) BY <1>1, <1>2, <1>3, <1>5
  <2>2. PICK i \in 1 .. Len(queue) : d \in DataOf(queue[i])
    BY <2>1 DEF DataReleased, NothingLeaks
  <2>3. i # 1 BY <2>1, <2>2
  <2>4. i - 1 \in 1 .. Len(queue') /\ queue'[i - 1] = queue[(i - 1) + 1] /\ (i - 1) + 1 = i
    BY <1>1, <1>2, <2>3
  <2>5. d \in DataOf(queue'[i - 1]) BY <2>2, <2>4
  <2>. QED BY <2>4, <2>5
<1>. QED BY <1>4, <1>5 DEF DataReleased, NothingLeaks

\* What no message holds any more has been released, with the elements of its array,
\* whatever value was refused and whether or not the receiver was there, for any number
\* of messages of any length (context_lua.cpp:957-1171, message.h:103-133).
THEOREM MessagesAreReleased == MessagesSpec => []DataReleased
<1>1. MessagesInit => DataReleased
  <2>. SUFFICES ASSUME MessagesInit PROVE DataReleased
    OBVIOUS
  <2>1. made = 0 /\ queue = << >> /\ m_yielding_message = Plain
        /\ released = [d \in 1 .. MESSAGE_DATA |-> 0]
    BY DEF MessagesInit
  <2>2. Plain \in Message BY CleanedIs DEF Plain, Cleaned
  <2>3. MessagesTypeOK BY <2>1, <2>2, MessagesAssumption DEF MessagesTypeOK
  <2>. QED BY <2>1, <2>3 DEF DataReleased, NothingLeaks
<1>2. DataReleased /\ [MessagesNext]_messageVars => DataReleased'
  <2>. SUFFICES ASSUME DataReleased, [MessagesNext]_messageVars PROVE DataReleased'
    OBVIOUS
  <2>1. CASE MessagesNext
    BY <2>1, SendKeeps, QueryKeeps, ProcessKeeps DEF MessagesNext
  <2>2. CASE UNCHANGED messageVars
    BY <2>2 DEF DataReleased, MessagesTypeOK, NothingLeaks, messageVars
  <2>. QED BY <2>1, <2>2
<1>. QED BY <1>1, <1>2, PTL DEF MessagesSpec
=============================================================================
