--------------------------- MODULE ContextMgrProofs ---------------------------
(***************************************************************************)
(* Proofs about ContextMgr, for every set of contexts, every range of       *)
(* handles and every initial capacity.                                      *)
(***************************************************************************)
EXTENDS ContextMgr, FiniteSetTheorems, SequenceTheorems, TLAPS

-----------------------------------------------------------------------------
(* Remainders.                                                              *)

\* A remainder is an index of the table (handle % m_slot_cap, context_mgr.cpp:46).
LEMMA ModRange ==
    ASSUME NEW a \in Int, NEW b \in Nat \ {0}
    PROVE  a % b \in 0 .. b - 1
OBVIOUS

\* What one wrap-around does.
LEMMA ModWrap ==
    ASSUME NEW a \in Nat, NEW b \in Nat \ {0}, a < 2 * b
    PROVE  a % b = IF a < b THEN a ELSE a - b
OBVIOUS

\* Quotient and remainder make the number up again.
LEMMA DivMod ==
    ASSUME NEW a \in Int, NEW b \in Nat \ {0}
    PROVE  /\ a = b * (a \div b) + (a % b)
           /\ a \div b \in Int
           /\ a % b \in 0 .. b - 1
OBVIOUS

\* A remainder is determined by its range and its congruence.
LEMMA ModUnique ==
    ASSUME NEW a \in Int, NEW b \in Nat \ {0}, NEW q \in Int,
           NEW r \in 0 .. b - 1, a = b * q + r
    PROVE  a % b = r
<1>. DEFINE k == a \div b
            s == a % b
<1>1. a = b * k + s /\ k \in Int /\ s \in 0 .. b - 1
    BY DivMod
<1>. HIDE DEF k, s
<1>2. b * (q - k) = s - r
    BY <1>1
<1>3. q = k
    <2>1. CASE q - k >= 1
        <3>1. b * (q - k) >= b
            BY <2>1, <1>1
        <3>. QED BY <1>1, <1>2, <3>1
    <2>2. CASE q - k <= -1
        <3>1. b * (q - k) <= -b
            BY <2>2, <1>1
        <3>. QED BY <1>1, <1>2, <3>1
    <2>. QED BY <2>1, <2>2, <1>1
<1>4. s = r
    BY <1>1, <1>3
<1>. QED BY <1>4 DEF s

\* Multiples of 4b are multiples of b: the regrouping ModNest rests on.
LEMMA Regroup ==
    ASSUME NEW b \in Int, NEW p \in Int, NEW q \in Int, NEW k \in Int,
           NEW r \in Int
    PROVE  4 * b * p + (b * k - 4 * b * q + r) = b * (4 * (p - q) + k) + r
OBVIOUS

\* Two handles in different slots stay in different slots when the table grows.
LEMMA ModNest ==
    ASSUME NEW g \in Nat, NEW h \in Nat, NEW b \in Nat \ {0},
           g % (4 * b) = h % (4 * b)
    PROVE  g % b = h % b
<1>. DEFINE c == 4 * b
            p == g \div c
            q == h \div c
            k == h \div b
<1>1. c \in Nat \ {0}
    OBVIOUS
<1>2. /\ g = c * p + (g % c) /\ p \in Int
      /\ h = c * q + (h % c) /\ q \in Int
    <2>. HIDE DEF c
    <2>. QED BY <1>1, DivMod
<1>3. h = b * k + (h % b) /\ h % b \in 0 .. b - 1 /\ k \in Int
    BY DivMod
<1>4. g = c * p + (b * k - c * q + (h % b))
    <2>. HIDE DEF c, p, q, k
    <2>1. g % c = h % c /\ g % c \in Int
        BY <1>1 DEF c
    <2>. QED BY <1>1, <1>2, <1>3, <2>1
<1>5. g = b * (4 * (p - q) + k) + (h % b)
    <2>. HIDE DEF p, q, k
    <2>. QED BY <1>2, <1>3, <1>4, Regroup
<1>. QED
    <2>. HIDE DEF p, q, k
    <2>1. 4 * (p - q) + k \in Int
        BY <1>2, <1>3
    <2>2. g \in Int
        OBVIOUS
    <2>3. PICK m, r : m = 4 * (p - q) + k /\ r = h % b
        OBVIOUS
    <2>4. g % b = r
        <3>1. m \in Int /\ r \in 0 .. b - 1 /\ g = b * m + r
            BY <1>3, <1>5, <2>1, <2>3
        <3>. QED BY <3>1, <2>2, ModUnique
    <2>. QED BY <2>3, <2>4

-----------------------------------------------------------------------------
(* Handles and slots.                                                       *)

\* A new handle fits an unsigned int and is never 0, also past the wrap-around
\* (context_mgr.cpp:8-23).
LEMMA HandleRange ==
    ASSUME NEW index \in 0 .. UintRange - 1, NEW cap \in Nat \ {0},
           2 * cap <= UintRange, NEW i \in 0 .. cap - 1
    PROVE  Handle(index, cap, i) \in 1 .. UintRange - 1
<1>. UintRange \in Nat \ {0}
    BY ContextMgrAssumption
<1>1. CASE Meets0(index, i)
    <2>. DEFINE x == index + cap + i
    <2>1. x \in Nat /\ x < 2 * UintRange /\ x # UintRange /\ x >= 1
        BY <1>1 DEF Meets0
    <2>2. x % UintRange = IF x < UintRange THEN x ELSE x - UintRange
        <3>. HIDE DEF x
        <3>. QED BY <2>1, ModWrap
    <2>3. Handle(index, cap, i) = x % UintRange
        BY <1>1 DEF Handle
    <2>. HIDE DEF x
    <2>. QED BY <2>1, <2>2, <2>3
<1>2. CASE ~Meets0(index, i)
    <2>. DEFINE x == index + i
    <2>1. x \in Nat /\ x < UintRange /\ x >= 1
        BY <1>2 DEF Meets0
    <2>2. x % UintRange = x
        <3>. HIDE DEF x
        <3>. QED BY <2>1, ModWrap
    <2>3. Handle(index, cap, i) = x % UintRange
        BY <1>2 DEF Handle
    <2>. HIDE DEF x
    <2>. QED BY <2>1, <2>2, <2>3
<1>. QED BY <1>1, <1>2

\* Table slot of capacity cap holds the registered contexts by their handles.
Agree(slot, cap) ==
    \A c \in Context, s \in 0 .. cap - 1 :
        slot[s] = c <=> m_handle[c] # 0 /\ m_handle[c] % cap = s

\* The capacity stays small enough for a sweep not to go once round.
CapOK == 2 * m_slot_cap <= UintRange

\* The inductive invariant.
IInv == TypeOK /\ CapOK /\ SlotsAgree /\ CountExact

\* A full table has no more slots than there are contexts.
LEMMA FullCap ==
    ASSUME TypeOK, SlotsAgree, Full
    PROVE  m_slot_cap <= Cardinality(Context)
<1>. DEFINE S == 0 .. m_slot_cap - 1
            f == [s \in S |-> m_ctx_slot[s]]
<1>1. m_slot_cap \in Nat \ {0} /\ \A s \in S : m_ctx_slot[s] \in Context
    BY DEF TypeOK, Full
<1>2. ASSUME NEW s \in S, NEW t \in S, m_ctx_slot[s] = m_ctx_slot[t]
      PROVE  s = t
    BY <1>1, <1>2 DEF SlotsAgree
<1>3. f \in Injection(S, Context)
    BY <1>1, <1>2 DEF Injection, IsInjective
<1>4. Cardinality(S) <= Cardinality(Context)
    <2>. HIDE DEF S, f
    <2>. QED BY <1>3, FS_Injection, ContextMgrAssumption
<1>5. Cardinality(S) = m_slot_cap
    BY <1>1, FS_Interval
<1>. QED BY <1>4, <1>5

\* Growing moves every context to the slot of its handle.
LEMMA ExpandedAgrees ==
    ASSUME TypeOK, SlotsAgree
    PROVE  LET cap == 4 * m_slot_cap
           IN  /\ Expanded(cap) \in [0 .. cap - 1 -> Context \cup {NULL}]
               /\ Agree(Expanded(cap), cap)
<1>. DEFINE cap == 4 * m_slot_cap
<1>0. m_slot_cap \in Nat \ {0} /\ \A c \in Context : m_handle[c] \in Nat
    BY ContextMgrAssumption DEF TypeOK
<1>1. ASSUME NEW c \in Registered, NEW d \in Registered,
             m_handle[c] % cap = m_handle[d] % cap
      PROVE  c = d
    <2>1. m_handle[c] % m_slot_cap = m_handle[d] % m_slot_cap
        BY <1>0, <1>1, ModNest DEF Registered
    <2>2. m_handle[c] % m_slot_cap \in 0 .. m_slot_cap - 1
        BY <1>0, ModRange DEF Registered
    <2>. QED BY <2>1, <2>2 DEF SlotsAgree, Registered
<1>2. ASSUME NEW s \in 0 .. cap - 1
      PROVE  /\ Expanded(cap)[s] \in Context \cup {NULL}
             /\ \A c \in Context :
                    Expanded(cap)[s] = c <=> m_handle[c] # 0 /\ m_handle[c] % cap = s
    <2>. HIDE DEF cap
    <2>1. CASE \E c \in Registered : m_handle[c] % cap = s
        <3>1. Expanded(cap)[s] = CHOOSE c \in Registered : m_handle[c] % cap = s
            BY <2>1 DEF Expanded
        <3>2. /\ Expanded(cap)[s] \in Registered
              /\ m_handle[Expanded(cap)[s]] % cap = s
            BY <2>1, <3>1
        <3>. QED BY <3>2, <1>1 DEF Registered
    <2>2. CASE ~\E c \in Registered : m_handle[c] % cap = s
        <3>1. Expanded(cap)[s] = NULL
            BY <2>2 DEF Expanded
        <3>. QED BY <2>2, <3>1, ContextMgrAssumption DEF Registered
    <2>. QED BY <2>1, <2>2
<1>3. Expanded(cap) = [s \in 0 .. cap - 1 |-> Expanded(cap)[s]]
    BY DEF Expanded
<1>. HIDE DEF cap
<1>4. Expanded(cap) \in [0 .. cap - 1 -> Context \cup {NULL}]
    BY <1>2, <1>3
<1>5. Agree(Expanded(cap), cap)
    BY <1>2 DEF Agree
<1>. QED BY <1>4, <1>5 DEF cap

-----------------------------------------------------------------------------
(* The invariant.                                                           *)

\* The empty registry satisfies the slot invariant (context_mgr.cpp:5-6).
LEMMA InitInvariant == Init => IInv
<1>. SUFFICES ASSUME Init
              PROVE  IInv
    OBVIOUS
<1>. USE DEF Init
<1>1. TypeOK
    BY ContextMgrAssumption DEF TypeOK
<1>2. CapOK
    BY ContextMgrAssumption DEF CapOK
<1>3. SlotsAgree
    BY ContextMgrAssumption DEF SlotsAgree
<1>4. CountExact
    <2>1. Registered = {}
        BY DEF Registered
    <2>. QED BY <2>1, FS_EmptySet DEF CountExact
<1>. QED BY <1>1, <1>2, <1>3, <1>4 DEF IInv

\* The history of issued handles stays a sequence of handles.
LEMMA RememberType ==
    ASSUME TypeOK, NEW handle \in 1 .. UintRange - 1
    PROVE  Remember(handle) \in Seq(1 .. UintRange - 1)
<1>. DEFINE S == 1 .. UintRange - 1
            s == <<handle>> \o issued
            n == IF Len(issued) < HISTORY THEN Len(issued) + 1 ELSE HISTORY
<1>1. s \in Seq(S) /\ Len(s) = Len(issued) + 1 /\ issued \in Seq(S)
    BY DEF TypeOK
<1>2. n \in Nat /\ n <= Len(s)
    BY <1>1, ContextMgrAssumption
<1>3. Remember(handle) = SubSeq(s, 1, n)
    BY DEF Remember
<1>. HIDE DEF s, n, S
<1>4. \A i \in 1 .. n : s[i] \in S
    BY <1>1, <1>2
<1>5. SubSeq(s, 1, n) \in Seq(S)
    BY <1>2, <1>4, SubSeqProperties
<1>. QED BY <1>3, <1>5 DEF S

\* Giving c a free slot of a table that agrees keeps it so.
LEMMA PlaceInvariant ==
    ASSUME IInv, NEW c \in Context, m_handle[c] = 0,
           NEW index \in 0 .. UintRange - 1,
           NEW cap \in Nat \ {0}, 2 * cap <= UintRange,
           NEW slot \in [0 .. cap - 1 -> Context \cup {NULL}],
           Agree(slot, cap),
           Place(c, index, cap, slot),
           m_ctx_size' = m_ctx_size + 1,
           boot' \in {"index_max", "logger", "index_one", "done"}
    PROVE  IInv'
<1>. USE DEF IInv
<1>0. PICK i \in 0 .. cap - 1 :
          LET handle == Handle(index, cap, i)
          IN  /\ slot[handle % cap] = NULL
              /\ m_slot_cap' = cap
              /\ m_ctx_slot' = [slot EXCEPT ![handle % cap] = c]
              /\ m_handle' = [m_handle EXCEPT ![c] = handle]
              /\ m_handle_index' = (handle + 1) % UintRange
              /\ issued' = Remember(handle)
    BY DEF Place
<1>. DEFINE handle == Handle(index, cap, i)
            at == handle % cap
<1>1. handle \in 1 .. UintRange - 1
    BY HandleRange
<1>2. at \in 0 .. cap - 1
    <2>. HIDE DEF handle
    <2>. QED BY <1>1, ModRange
<1>3. /\ slot[at] = NULL
      /\ m_slot_cap' = cap
      /\ m_ctx_slot' = [slot EXCEPT ![at] = c]
      /\ m_handle' = [m_handle EXCEPT ![c] = handle]
      /\ m_handle_index' = (handle + 1) % UintRange
      /\ issued' = Remember(handle)
    BY <1>0
<1>4. at = handle % cap
    OBVIOUS
<1>. HIDE DEF handle, at
<1>5. TypeOK'
    <2>1. m_handle_index' \in 0 .. UintRange - 1
        <3>1. handle + 1 \in Int /\ UintRange \in Nat \ {0}
            BY <1>1, ContextMgrAssumption
        <3>2. (handle + 1) % UintRange \in 0 .. UintRange - 1
            BY <3>1, ModRange
        <3>. QED BY <1>3, <3>2
    <2>2. m_slot_cap' \in Nat \ {0} /\ m_ctx_size' \in Int
        BY <1>3 DEF TypeOK
    <2>3. m_ctx_slot' \in [0 .. m_slot_cap' - 1 -> Context \cup {NULL}]
        BY <1>2, <1>3
    <2>4. m_handle' \in [Context -> 0 .. UintRange - 1]
        BY <1>1, <1>3 DEF TypeOK
    <2>5. issued' \in Seq(1 .. UintRange - 1)
        BY <1>1, <1>3, RememberType
    <2>. QED BY <2>1, <2>2, <2>3, <2>4, <2>5 DEF TypeOK
<1>6. CapOK'
    BY <1>3 DEF CapOK
<1>7. SlotsAgree'
    <2>. SUFFICES ASSUME NEW d \in Context, NEW s \in 0 .. cap - 1
                  PROVE  m_ctx_slot'[s] = d
                             <=> m_handle'[d] # 0 /\ m_handle'[d] % cap = s
        BY <1>3 DEF SlotsAgree
    <2>0. slot[s] = d <=> m_handle[d] # 0 /\ m_handle[d] % cap = s
        BY DEF Agree
    <2>1. CASE d = c
        <3>1. m_handle'[d] = handle /\ handle # 0
            BY <1>1, <1>3, <2>1 DEF TypeOK
        <3>2. slot[s] # c
            BY <2>0, <2>1
        <3>3. m_ctx_slot'[s] = c <=> s = at
            BY <1>2, <1>3, <3>2
        <3>. QED BY <2>1, <3>1, <3>3, <1>4
    <2>2. CASE d # c
        <3>1. m_handle'[d] = m_handle[d]
            BY <1>3, <2>2 DEF TypeOK
        <3>2. CASE s = at
            <4>1. m_ctx_slot'[s] = c
                BY <1>2, <1>3, <3>2
            <4>2. slot[s] # d
                BY <1>3, <3>2, ContextMgrAssumption
            <4>. QED BY <2>0, <2>2, <3>1, <4>1, <4>2
        <3>3. CASE s # at
            <4>1. m_ctx_slot'[s] = slot[s]
                BY <1>2, <1>3, <3>3
            <4>. QED BY <2>0, <3>1, <4>1
        <3>. QED BY <3>2, <3>3
    <2>. QED BY <2>1, <2>2
<1>8. CountExact'
    <2>1. Registered' = Registered \cup {c} /\ c \notin Registered
        BY <1>1, <1>3 DEF Registered, TypeOK
    <2>2. IsFiniteSet(Registered)
        BY FS_Subset, ContextMgrAssumption DEF Registered
    <2>3. Cardinality(Registered \cup {c}) = Cardinality(Registered) + 1
        BY <2>1, <2>2, FS_AddElement
    <2>. QED BY <2>1, <2>3 DEF CountExact
<1>. QED BY <1>5, <1>6, <1>7, <1>8

\* Registering, retiring and setting the handle index keep the slot invariant.
LEMMA StepInvariant == IInv /\ [Next]_vars => IInv'
<1>. SUFFICES ASSUME IInv, [Next]_vars
              PROVE  IInv'
    OBVIOUS
<1>0. m_slot_cap \in Nat \ {0} /\ 2 * m_slot_cap <= UintRange
    BY DEF IInv, TypeOK, CapOK
<1>1. CASE set_handle_index
    <2>1. TypeOK'
        BY <1>1, ContextMgrAssumption
           DEF IInv, TypeOK, set_handle_index, MAX_CTX_SIZE
    <2>2. (CapOK /\ SlotsAgree /\ CountExact)'
        BY <1>1 DEF IInv, CapOK, SlotsAgree, CountExact, Registered,
                    set_handle_index
    <2>. QED BY <2>1, <2>2 DEF IInv
<1>2. ASSUME NEW c \in Context, register_context(c)
      PROVE  IInv'
    <2>1. /\ m_handle[c] = 0
          /\ m_ctx_size' = m_ctx_size + 1
          /\ boot' \in {"index_max", "logger", "index_one", "done"}
        BY <1>2 DEF register_context, IInv, TypeOK
    <2>2. CASE ~Full
        <3>1. Place(c, m_handle_index, m_slot_cap, m_ctx_slot)
            BY <1>2, <2>2 DEF register_context
        <3>2. Agree(m_ctx_slot, m_slot_cap)
            BY DEF IInv, SlotsAgree, Agree
        <3>. QED BY <1>0, <2>1, <3>1, <3>2, PlaceInvariant DEF IInv, TypeOK
    <2>3. CASE Full
        <3>. DEFINE cap == 4 * m_slot_cap
                    index == IF Meets0(m_handle_index, m_slot_cap - 1)
                             THEN (m_handle_index + m_slot_cap) % UintRange
                             ELSE m_handle_index
        <3>1. Place(c, index, cap, Expanded(cap))
            BY <1>2, <2>3 DEF register_context
        <3>2. index \in 0 .. UintRange - 1
            <4>1. m_handle_index + m_slot_cap \in Int /\ UintRange \in Nat \ {0}
                BY <1>0, ContextMgrAssumption DEF IInv, TypeOK
            <4>2. (m_handle_index + m_slot_cap) % UintRange \in 0 .. UintRange - 1
                BY <4>1, ModRange
            <4>. QED BY <4>2 DEF IInv, TypeOK
        <3>3. cap \in Nat \ {0} /\ 2 * cap <= UintRange
            <4>1. m_slot_cap <= Cardinality(Context)
                BY <2>3, FullCap DEF IInv
            <4>2. Cardinality(Context) \in Nat
                BY FS_CardinalityType, ContextMgrAssumption
            <4>. QED BY <1>0, <4>1, <4>2, ContextMgrAssumption
        <3>4. /\ Expanded(cap) \in [0 .. cap - 1 -> Context \cup {NULL}]
              /\ Agree(Expanded(cap), cap)
            BY ExpandedAgrees DEF IInv
        <3>. HIDE DEF cap, index
        <3>. QED BY <2>1, <3>1, <3>2, <3>3, <3>4, PlaceInvariant
    <2>. QED BY <2>2, <2>3
<1>3. ASSUME NEW c \in Context, retire_context(c)
      PROVE  IInv'
    <2>. DEFINE at == m_handle[c] % m_slot_cap
    <2>1. /\ m_handle[c] # 0
          /\ m_ctx_slot' = [m_ctx_slot EXCEPT ![at] = NULL]
          /\ m_ctx_size' = m_ctx_size - 1
          /\ m_handle' = [m_handle EXCEPT ![c] = 0]
          /\ UNCHANGED <<m_handle_index, m_slot_cap, boot, issued>>
        BY <1>3 DEF retire_context
    <2>2. at \in 0 .. m_slot_cap - 1
        <3>1. m_handle[c] \in Int
            BY ContextMgrAssumption DEF IInv, TypeOK
        <3>. QED BY <1>0, <3>1, ModRange
    <2>3. m_ctx_slot[at] = c
        BY <2>1, <2>2 DEF IInv, SlotsAgree
    <2>4. at = m_handle[c] % m_slot_cap
        OBVIOUS
    <2>. HIDE DEF at
    <2>5. TypeOK'
        BY <2>1, <2>2, ContextMgrAssumption DEF IInv, TypeOK
    <2>6. CapOK'
        BY <2>1 DEF IInv, CapOK
    <2>7. SlotsAgree'
        <3>. SUFFICES ASSUME NEW d \in Context, NEW s \in 0 .. m_slot_cap - 1
                      PROVE  m_ctx_slot'[s] = d
                                 <=> m_handle'[d] # 0 /\ m_handle'[d] % m_slot_cap = s
            BY <2>1 DEF SlotsAgree
        <3>0. m_ctx_slot[s] = d <=> m_handle[d] # 0 /\ m_handle[d] % m_slot_cap = s
            BY DEF IInv, SlotsAgree
        <3>1. m_ctx_slot'[s] = IF s = at THEN NULL ELSE m_ctx_slot[s]
            BY <2>1, <2>2 DEF IInv, TypeOK
        <3>2. m_handle'[d] = IF d = c THEN 0 ELSE m_handle[d]
            BY <2>1 DEF IInv, TypeOK
        <3>. QED BY <3>0, <3>1, <3>2, <2>3, <2>4, ContextMgrAssumption
    <2>8. CountExact'
        <3>1. Registered' = Registered \ {c} /\ c \in Registered
            BY <2>1 DEF Registered, IInv, TypeOK
        <3>2. IsFiniteSet(Registered)
            BY FS_Subset, ContextMgrAssumption DEF Registered
        <3>3. Cardinality(Registered \ {c}) = Cardinality(Registered) - 1
            BY <3>1, <3>2, FS_RemoveElement
        <3>. QED BY <2>1, <3>1, <3>3 DEF IInv, CountExact
    <2>. QED BY <2>5, <2>6, <2>7, <2>8 DEF IInv
<1>4. CASE UNCHANGED vars
    BY <1>4 DEF vars, IInv, TypeOK, CapOK, SlotsAgree, CountExact, Registered
<1>. QED BY <1>1, <1>2, <1>3, <1>4 DEF Next

\* The slots, the handles of the contexts and m_count agree at every step of the
\* registry (context_mgr.cpp:8-72).
THEOREM Invariant == Spec => []IInv
<1>. QED BY InitInvariant, StepInvariant, PTL DEF Spec

-----------------------------------------------------------------------------
(* What it gives.                                                           *)

\* The registry's fields keep their types: handles that are given out are never
\* 0, and the index stays an unsigned integer (context_mgr.cpp:54-62).
THEOREM TypeCorrect == Spec => []TypeOK
<1>. QED BY Invariant, PTL DEF IInv

\* Every registered context is in the slot of its handle and no slot holds
\* anything else, for any number of contexts, growth included: the assertions of
\* expand_slot and retire_context never fail (context_mgr.cpp:37,83).
THEOREM SlotsCorrect == Spec => []SlotsAgree
<1>. QED BY Invariant, PTL DEF IInv

\* m_ctx_size is the number of registered contexts (context_mgr.cpp:63,85).
THEOREM CountCorrect == Spec => []CountExact
<1>. QED BY Invariant, PTL DEF IInv

\* While slots and handles agree, grab_context finds exactly the context that
\* has the handle (context_mgr.cpp:74-83).
LEMMA SlotsGiveLookup == IInv => LookupExact
<1>. SUFFICES ASSUME IInv, NEW handle \in 0 .. UintRange - 1
              PROVE  /\ grab_context(handle) # NULL
                            => handle # 0 /\ m_handle[grab_context(handle)] = handle
                     /\ \A c \in Context : handle # 0 /\ m_handle[c] = handle
                            => grab_context(handle) = c
    BY DEF LookupExact
<1>. DEFINE at == handle % m_slot_cap
<1>1. at \in 0 .. m_slot_cap - 1
    <2>1. handle \in Int /\ m_slot_cap \in Nat \ {0}
        BY ContextMgrAssumption DEF IInv, TypeOK
    <2>. QED BY <2>1, ModRange
<1>2. m_ctx_slot[at] \in Context \cup {NULL}
    BY <1>1 DEF IInv, TypeOK
<1>3. \A c \in Context : m_ctx_slot[at] = c
                             <=> m_handle[c] # 0 /\ m_handle[c] % m_slot_cap = at
    BY <1>1 DEF IInv, SlotsAgree
<1>4. grab_context(handle) = IF m_ctx_slot[at] # NULL /\ m_handle[m_ctx_slot[at]] = handle
                             THEN m_ctx_slot[at] ELSE NULL
    BY DEF grab_context
<1>. QED BY <1>2, <1>3, <1>4, ContextMgrAssumption

\* A handle finds exactly the context that has it: a stale one finds nothing,
\* whatever context took over its slot (context_mgr.cpp:93-97).
THEOREM LookupCorrect == Spec => []LookupExact
<1>. QED BY Invariant, SlotsGiveLookup, PTL

-----------------------------------------------------------------------------
(* Handles are fresh, and a sweep meets a free slot.                        *)

\* The handles since h was issued, up to the next one: 1 for the newest.
Behind(h) == IF h < m_handle_index THEN m_handle_index - h
             ELSE m_handle_index - h + UintRange

\* How far one registration moves m_handle_index at most.
Stride == LargestCap + Cardinality(Context)

\* The capacity is a power of two, and as large as the contexts need.
CapDivides == UintRange % m_slot_cap = 0 /\ m_slot_cap <= LargestCap

\* The start: the logger's handle is the largest, and the others count from 1.
BootOrder ==
    /\ boot \in {"index_max", "logger"} => Registered = {} /\ issued = << >>
    /\ boot = "logger" => m_handle_index = MAX_CTX_SIZE
    /\ boot = "index_one" =>
           /\ m_handle_index = 0
           /\ \A i \in 1 .. Len(issued) : i = 1 /\ issued[i] = MAX_CTX_SIZE

\* Older handles lie further behind, and none so far that the index meets it.
Window ==
    /\ Len(issued) <= HISTORY
    /\ \A i \in 1 .. Len(issued) : Behind(issued[i]) <= 2 + (i - 1) * Stride
    /\ \A i, j \in 1 .. Len(issued) :
           i < j => Behind(issued[i]) < Behind(issued[j])

\* The inductive invariant of the handles.
HandlesInv == IInv /\ CapDivides /\ BootOrder /\ Window

\* Whole rounds do not change a remainder.
LEMMA ModShift ==
    ASSUME NEW a \in Int, NEW b \in Nat \ {0}, NEW k \in Int
    PROVE  (a + b * k) % b = a % b
<1>. DEFINE q == a \div b
            r == a % b
            x == a + b * k
<1>1. a = b * q + r /\ q \in Int /\ r \in 0 .. b - 1
    BY DivMod
<1>2. x = b * (q + k) + r
    <2>. HIDE DEF q, r
    <2>. QED BY <1>1
<1>3. x \in Int /\ q + k \in Int
    <2>. HIDE DEF q
    <2>. QED BY <1>1
<1>4. x % b = r
    <2>1. PICK m \in Int : m = q + k
        BY <1>3
    <2>2. x = b * m + r
        BY <1>2, <2>1
    <2>. HIDE DEF x, r, q
    <2>. QED BY <1>1, <1>3, <2>2, ModUnique
<1>. QED BY <1>4 DEF x, r

\* Consecutive numbers fall into different slots.
LEMMA ModInjective ==
    ASSUME NEW index \in Nat, NEW cap \in Nat \ {0},
           NEW i \in 0 .. cap - 1, NEW j \in 0 .. cap - 1,
           (index + i) % cap = (index + j) % cap
    PROVE  i = j
<1>1. PICK p \in Int, r \in 0 .. cap - 1 : index + i = cap * p + r /\ r = (index + i) % cap
    <2>1. index + i \in Int
        OBVIOUS
    <2>. QED BY <2>1, DivMod
<1>2. PICK q \in Int : index + j = cap * q + r
    <2>1. index + j \in Int
        OBVIOUS
    <2>. QED BY <2>1, <1>1, DivMod
<1>3. cap * (p - q) = i - j
    BY <1>1, <1>2
<1>4. p = q
    <2>1. CASE p - q >= 1
        <3>1. cap * (p - q) >= cap
            BY <2>1
        <3>. QED BY <1>3, <3>1
    <2>2. CASE p - q <= -1
        <3>1. cap * (p - q) <= -cap
            BY <2>2
        <3>. QED BY <1>3, <3>1
    <2>. QED BY <2>1, <2>2
<1>. QED BY <1>3, <1>4

\* Of cap consecutive numbers one falls into each slot.
LEMMA ModOnto ==
    ASSUME NEW index \in Nat, NEW cap \in Nat \ {0}, NEW s \in 0 .. cap - 1
    PROVE  \E i \in 0 .. cap - 1 : (index + i) % cap = s
<1>1. PICK k \in Int, i \in 0 .. cap - 1 : s - index = cap * k + i
    <2>1. s - index \in Int
        OBVIOUS
    <2>. QED BY <2>1, DivMod
<1>2. PICK m \in Int : m = -k
    OBVIOUS
<1>3. cap * m = -(cap * k)
    BY <1>2
<1>4. index + i = cap * m + s /\ index + i \in Int
    BY <1>1, <1>3
<1>5. (index + i) % cap = s
    <2>1. PICK x \in Int : x = index + i
        BY <1>4
    <2>2. x = cap * m + s
        BY <2>1, <1>4
    <2>3. x % cap = s
        BY <2>2, ModUnique
    <2>. QED BY <2>1, <2>3
<1>. QED BY <1>5

\* The sweep visits consecutive slots, also when it skips handle 0.
LEMMA SweepSlot ==
    ASSUME NEW index \in 0 .. UintRange - 1, NEW cap \in Nat \ {0},
           2 * cap <= UintRange, UintRange % cap = 0, NEW i \in 0 .. cap - 1
    PROVE  Handle(index, cap, i) % cap = (index + i) % cap
<1>0. UintRange \in Nat \ {0}
    BY ContextMgrAssumption
<1>1. PICK q \in Int : UintRange = cap * q
    <2>1. PICK q, r : q = UintRange \div cap /\ r = UintRange % cap
        OBVIOUS
    <2>2. UintRange = cap * q + r /\ q \in Int
        BY <1>0, <2>1, DivMod
    <2>3. r = 0
        BY <2>1
    <2>4. UintRange = cap * q
        BY <2>2, <2>3
    <2>. QED BY <2>2, <2>4, Zenon
<1>2. PICK a \in Int : a = index + i
    BY <1>0
<1>3. CASE Meets0(index, i)
    <2>. DEFINE x == a + cap
    <2>1. x \in Nat /\ x < 2 * UintRange
        BY <1>0, <1>2
    <2>2. x % UintRange = IF x < UintRange THEN x ELSE x - UintRange
        <3>. HIDE DEF x
        <3>. QED BY <1>0, <2>1, ModWrap
    <2>3. Handle(index, cap, i) = x % UintRange
        <3>1. index + cap + i = x
            BY <1>0, <1>2
        <3>. QED BY <1>3, <3>1 DEF Handle
    <2>4. PICK k \in Int, o \in Int : k = 1 - q /\ o = 1
        OBVIOUS
    <2>5. x = a + cap * o /\ x - UintRange = a + cap * k
        <3>1. PICK p \in Int : p = cap * q
            OBVIOUS
        <3>2. cap * k = cap - p
            BY <2>4, <3>1
        <3>3. PICK m \in Int : m = cap * k
            OBVIOUS
        <3>4. x - UintRange = a + m
            BY <1>0, <1>1, <3>1, <3>2, <3>3
        <3>5. x = a + cap * o
            BY <2>4
        <3>. QED BY <3>3, <3>4, <3>5
    <2>6. (a + cap * o) % cap = a % cap /\ (a + cap * k) % cap = a % cap
        BY ModShift
    <2>7. x % cap = a % cap /\ (x - UintRange) % cap = a % cap
        BY <2>5, <2>6
    <2>. HIDE DEF x
    <2>. QED BY <2>2, <2>3, <2>7, <1>2
<1>4. CASE ~Meets0(index, i)
    <2>1. a \in Nat /\ a < UintRange
        BY <1>0, <1>2, <1>4 DEF Meets0
    <2>2. a % UintRange = a
        BY <1>0, <2>1, ModWrap
    <2>3. Handle(index, cap, i) = a
        BY <1>2, <1>4, <2>2 DEF Handle
    <2>. QED BY <1>2, <2>3
<1>. QED BY <1>3, <1>4

\* A sweep passes over no more slots than there are other contexts.
LEMMA SweepShort ==
    ASSUME NEW index \in 0 .. UintRange - 1, NEW cap \in Nat \ {0},
           2 * cap <= UintRange, UintRange % cap = 0, NEW i \in 0 .. cap - 1,
           NEW slot \in [0 .. cap - 1 -> Context \cup {NULL}], Agree(slot, cap),
           NEW c \in Context, m_handle[c] = 0,
           \A j \in 0 .. i - 1 : slot[Handle(index, cap, j) % cap] # NULL
    PROVE  i <= Cardinality(Context) - 1
<1>. DEFINE S == 0 .. i - 1
            T == Context \ {c}
            f == [j \in S |-> slot[(index + j) % cap]]
<1>0. index \in Nat
    BY ContextMgrAssumption
<1>1. ASSUME NEW j \in S
      PROVE  (index + j) % cap \in 0 .. cap - 1 /\ slot[(index + j) % cap] \in T
    <2>1. j \in 0 .. cap - 1 /\ index + j \in Int
        BY <1>0
    <2>2. Handle(index, cap, j) % cap = (index + j) % cap
        BY <2>1, SweepSlot
    <2>3. (index + j) % cap \in 0 .. cap - 1
        BY <2>1, ModRange
    <2>4. slot[(index + j) % cap] # NULL
        BY <2>2
    <2>5. slot[(index + j) % cap] # c
        BY <2>3 DEF Agree
    <2>. QED BY <2>3, <2>4, <2>5
<1>2. ASSUME NEW j \in S, NEW k \in S, slot[(index + j) % cap] = slot[(index + k) % cap]
      PROVE  j = k
    <2>1. PICK d \in Context : d = slot[(index + j) % cap]
        BY <1>1
    <2>2. m_handle[d] % cap = (index + j) % cap /\ m_handle[d] % cap = (index + k) % cap
        BY <1>1, <1>2, <2>1 DEF Agree
    <2>3. j \in 0 .. cap - 1 /\ k \in 0 .. cap - 1
        OBVIOUS
    <2>. QED BY <1>0, <2>2, <2>3, ModInjective
<1>3. f \in Injection(S, T)
    BY <1>1, <1>2 DEF Injection, IsInjective
<1>4. IsFiniteSet(T) /\ Cardinality(T) = Cardinality(Context) - 1
    BY FS_RemoveElement, ContextMgrAssumption
<1>5. Cardinality(S) <= Cardinality(T)
    <2>. HIDE DEF S, f, T
    <2>. QED BY <1>3, <1>4, FS_Injection
<1>6. Cardinality(S) = i
    BY FS_Interval
<1>. QED BY <1>4, <1>5, <1>6

\* A table that is not full has a slot that the sweep comes by.
LEMMA SweepFinds == HandlesInv => SlotFound
<1>. SUFFICES ASSUME HandlesInv, ~Full
              PROVE  \E i \in 0 .. m_slot_cap - 1 :
                         m_ctx_slot[Handle(m_handle_index, m_slot_cap, i)
                                        % m_slot_cap] = NULL
    BY DEF SlotFound
<1>1. /\ m_handle_index \in 0 .. UintRange - 1 /\ m_handle_index \in Nat
      /\ m_slot_cap \in Nat \ {0}
      /\ 2 * m_slot_cap <= UintRange
      /\ UintRange % m_slot_cap = 0
    BY ContextMgrAssumption DEF HandlesInv, IInv, TypeOK, CapOK, CapDivides
<1>2. PICK s \in 0 .. m_slot_cap - 1 : m_ctx_slot[s] = NULL
    BY DEF Full
<1>3. PICK i \in 0 .. m_slot_cap - 1 : (m_handle_index + i) % m_slot_cap = s
    <2>1. PICK index, cap : index = m_handle_index /\ cap = m_slot_cap
        OBVIOUS
    <2>2. index \in Nat /\ cap \in Nat \ {0} /\ s \in 0 .. cap - 1
        BY <1>1, <2>1
    <2>3. \E i \in 0 .. cap - 1 : (index + i) % cap = s
        BY <2>2, ModOnto
    <2>. QED BY <2>1, <2>3
<1>4. Handle(m_handle_index, m_slot_cap, i) % m_slot_cap = s
    BY <1>1, <1>3, SweepSlot
<1>. QED BY <1>2, <1>4

\* The numbers the steps below work with.
LEMMA HandleNumbers ==
    ASSUME HandlesInv
    PROVE  /\ UintRange \in Nat \ {0}
           /\ m_handle_index \in 0 .. UintRange - 1
           /\ m_slot_cap \in Nat \ {0}
           /\ 2 * m_slot_cap <= UintRange
           /\ UintRange % m_slot_cap = 0
           /\ m_slot_cap <= LargestCap
           /\ Cardinality(Context) \in Nat \ {0}
           /\ 8 * Cardinality(Context) <= UintRange
           /\ LargestCap \in Nat
           /\ 4 * Cardinality(Context) <= LargestCap
<1>1. Cardinality(Context) \in Nat /\ Context # {}
    BY FS_CardinalityType, ContextMgrAssumption
<1>2. Cardinality(Context) # 0
    BY <1>1, FS_EmptySet, ContextMgrAssumption
<1>. QED
    BY <1>1, <1>2, ContextMgrAssumption
       DEF HandlesInv, IInv, TypeOK, CapOK, CapDivides, LargestCap

\* Growing keeps the capacity a power of two, and no larger than it may get.
LEMMA GrownDivides ==
    ASSUME HandlesInv, Full
    PROVE  /\ UintRange % (4 * m_slot_cap) = 0
           /\ 4 * m_slot_cap <= LargestCap
           /\ 8 * m_slot_cap <= UintRange
           /\ m_slot_cap <= Cardinality(Context)
<1>1. m_slot_cap <= Cardinality(Context)
    BY FullCap DEF HandlesInv, IInv
<1>2. 4 * m_slot_cap <= LargestCap /\ 8 * m_slot_cap <= UintRange
    BY <1>1, HandleNumbers
<1>3. m_slot_cap \in 1 .. UintRange \div 4
    BY <1>2, HandleNumbers
<1>4. UintRange % (4 * m_slot_cap) = 0
    BY <1>3, HandleNumbers, PowersOfTwo
<1>. QED BY <1>1, <1>2, <1>4

\* What a sweep does to the index.
LEMMA PlaceAdvances ==
    ASSUME HandlesInv, NEW c \in Context, m_handle[c] = 0,
           NEW index \in 0 .. UintRange - 1,
           NEW cap \in Nat \ {0}, 2 * cap <= UintRange, UintRange % cap = 0,
           NEW slot \in [0 .. cap - 1 -> Context \cup {NULL}],
           Agree(slot, cap),
           Place(c, index, cap, slot)
    PROVE  \E h \in 1 .. UintRange - 1, i \in 0 .. cap - 1 :
               /\ i <= Cardinality(Context) - 1
               /\ m_handle_index' = (h + 1) % UintRange
               /\ issued' = Remember(h)
               /\ \/ h + 1 = index + i + 1
                  \/ /\ Meets0(index, i)
                     /\ \/ h + 1 = index + (cap + i + 1)
                        \/ h + 1 + UintRange = index + (cap + i + 1)
<1>0. UintRange \in Nat \ {0}
    BY ContextMgrAssumption
<1>1. PICK i \in 0 .. cap - 1 :
          /\ \A j \in 0 .. i - 1 : slot[Handle(index, cap, j) % cap] # NULL
          /\ m_handle_index' = (Handle(index, cap, i) + 1) % UintRange
          /\ issued' = Remember(Handle(index, cap, i))
    BY DEF Place
<1>2. i <= Cardinality(Context) - 1
    BY <1>1, SweepShort
<1>3. PICK h \in 1 .. UintRange - 1 : h = Handle(index, cap, i)
    BY HandleRange
<1>4. CASE Meets0(index, i)
    <2>1. PICK x \in Nat : x = index + cap + i
        BY <1>0
    <2>2. x < 2 * UintRange
        BY <1>0, <2>1
    <2>3. x % UintRange = IF x < UintRange THEN x ELSE x - UintRange
        BY <1>0, <2>2, ModWrap
    <2>4. h = x % UintRange
        BY <1>3, <1>4, <2>1 DEF Handle
    <2>5. h + 1 = index + (cap + i + 1) \/ h + 1 + UintRange = index + (cap + i + 1)
        BY <1>0, <2>1, <2>3, <2>4
    <2>. QED BY <1>1, <1>2, <1>3, <1>4, <2>5
<1>5. CASE ~Meets0(index, i)
    <2>1. PICK x \in Nat : x = index + i
        BY <1>0
    <2>2. x < UintRange /\ x < 2 * UintRange
        BY <1>0, <1>5, <2>1 DEF Meets0
    <2>3. x % UintRange = x
        BY <1>0, <2>2, ModWrap
    <2>4. h = x
        BY <1>3, <1>5, <2>1, <2>3 DEF Handle
    <2>5. h + 1 = index + i + 1
        BY <1>0, <2>1, <2>4
    <2>. QED BY <1>1, <1>2, <1>3, <2>5
<1>. QED BY <1>4, <1>5

\* A registration moves the index by at most one stride.
LEMMA Advances ==
    ASSUME HandlesInv, NEW c \in Context, register_context(c)
    PROVE  /\ CapDivides'
           /\ \E h \in 1 .. UintRange - 1, g \in 1 .. Stride :
                  /\ m_handle_index' = (h + 1) % UintRange
                  /\ issued' = Remember(h)
                  /\ \/ h + 1 = m_handle_index + g
                     \/ h + 1 + UintRange = m_handle_index + g
<1>. USE HandleNumbers
<1>0. m_handle[c] = 0
    BY DEF register_context
<1>1. CASE ~Full
    <2>1. Place(c, m_handle_index, m_slot_cap, m_ctx_slot)
        BY <1>1 DEF register_context
    <2>2. /\ m_ctx_slot \in [0 .. m_slot_cap - 1 -> Context \cup {NULL}]
          /\ Agree(m_ctx_slot, m_slot_cap)
        BY DEF HandlesInv, IInv, TypeOK, SlotsAgree, Agree
    <2>0. PICK index, cap : index = m_handle_index /\ cap = m_slot_cap
        OBVIOUS
    <2>3. PICK h \in 1 .. UintRange - 1, i \in 0 .. cap - 1 :
              /\ i <= Cardinality(Context) - 1
              /\ m_handle_index' = (h + 1) % UintRange
              /\ issued' = Remember(h)
              /\ \/ h + 1 = index + i + 1
                 \/ /\ Meets0(index, i)
                    /\ \/ h + 1 = index + (cap + i + 1)
                       \/ h + 1 + UintRange = index + (cap + i + 1)
        <3>1. /\ index \in 0 .. UintRange - 1
              /\ cap \in Nat \ {0} /\ 2 * cap <= UintRange /\ UintRange % cap = 0
              /\ m_ctx_slot \in [0 .. cap - 1 -> Context \cup {NULL}]
              /\ Agree(m_ctx_slot, cap) /\ Place(c, index, cap, m_ctx_slot)
            BY <2>0, <2>1, <2>2
        <3>. QED BY <1>0, <3>1, PlaceAdvances, Zenon
    <2>4. i + 1 \in 1 .. Stride /\ cap + i + 1 \in 1 .. Stride
        BY <2>0, <2>3 DEF Stride
    <2>5. index + i + 1 = index + (i + 1)
        BY <2>0, <2>3
    <2>6. m_slot_cap' = m_slot_cap
        BY <2>1 DEF Place
    <2>7. CapDivides'
        BY <2>6 DEF HandlesInv, CapDivides
    <2>. QED BY <2>0, <2>3, <2>4, <2>5, <2>7
<1>2. CASE Full
    <2>. DEFINE cap == 4 * m_slot_cap
                index == IF Meets0(m_handle_index, m_slot_cap - 1)
                         THEN (m_handle_index + m_slot_cap) % UintRange
                         ELSE m_handle_index
    <2>1. Place(c, index, cap, Expanded(cap))
        BY <1>2 DEF register_context
    <2>2. /\ cap \in Nat \ {0} /\ 2 * cap <= UintRange
          /\ UintRange % cap = 0 /\ cap <= LargestCap
          /\ m_slot_cap <= Cardinality(Context)
        BY <1>2, GrownDivides
    <2>3. /\ Expanded(cap) \in [0 .. cap - 1 -> Context \cup {NULL}]
          /\ Agree(Expanded(cap), cap)
        BY ExpandedAgrees DEF HandlesInv, IInv
    <2>4. m_slot_cap' = cap
        BY <2>1 DEF Place
    <2>5. CapDivides'
        BY <2>2, <2>4 DEF CapDivides
    <2>6. CASE Meets0(m_handle_index, m_slot_cap - 1)
        <3>1. PICK x \in Nat : x = m_handle_index + m_slot_cap
            OBVIOUS
        <3>2. /\ x < 2 * UintRange
              /\ m_handle_index = 0 \/ x >= UintRange + 1
            BY <2>6, <3>1 DEF Meets0
        <3>3. x % UintRange = IF x < UintRange THEN x ELSE x - UintRange
            BY <3>2, ModWrap
        <3>4. index = IF x < UintRange THEN x ELSE x - UintRange
            BY <2>6, <3>1, <3>3
        <3>5. index \in 1 .. m_slot_cap
            <4>. HIDE DEF index
            <4>. QED BY <3>1, <3>2, <3>4
        <3>6. \/ index = m_handle_index + m_slot_cap
              \/ index + UintRange = m_handle_index + m_slot_cap
            <4>. HIDE DEF index
            <4>. QED BY <3>1, <3>4
        <3>7. index \in 0 .. UintRange - 1
            BY <3>5
        <3>8. PICK h \in 1 .. UintRange - 1, i \in 0 .. cap - 1 :
                  /\ i <= Cardinality(Context) - 1
                  /\ m_handle_index' = (h + 1) % UintRange
                  /\ issued' = Remember(h)
                  /\ h + 1 = index + i + 1 \/ Meets0(index, i)
            <4>. HIDE DEF index, cap
            <4>. QED BY <1>0, <2>1, <2>2, <2>3, <3>7, PlaceAdvances
        <3>9. ~Meets0(index, i)
            <4>. HIDE DEF index
            <4>1. i < 4 * m_slot_cap
                BY <3>8
            <4>. QED BY <1>2, <3>5, <3>8, <4>1, GrownDivides DEF Meets0
        <3>10. PICK g \in Nat : g = m_slot_cap + i + 1
            BY <3>8
        <3>11. g \in 1 .. Stride
            BY <3>8, <3>10, <2>2 DEF Stride
        <3>12. \/ h + 1 = m_handle_index + g
               \/ h + 1 + UintRange = m_handle_index + g
            <4>. HIDE DEF index
            <4>1. h + 1 = index + i + 1 /\ i \in Nat /\ index \in Nat
                BY <3>5, <3>8, <3>9
            <4>2. m_handle_index \in Nat /\ m_slot_cap \in Nat /\ UintRange \in Nat
                OBVIOUS
            <4>3. CASE index = m_handle_index + m_slot_cap
                BY <3>10, <4>1, <4>2, <4>3
            <4>4. CASE index + UintRange = m_handle_index + m_slot_cap
                <5>1. h + 1 + UintRange = m_handle_index + g
                    BY <3>10, <4>1, <4>2, <4>4
                <5>. QED BY <5>1
            <4>. QED BY <3>6, <4>3, <4>4
        <3>. QED BY <2>5, <3>8, <3>11, <3>12
    <2>7. CASE ~Meets0(m_handle_index, m_slot_cap - 1)
        <3>1. index = m_handle_index /\ index \in 0 .. UintRange - 1
            BY <2>7
        <3>2. PICK h \in 1 .. UintRange - 1, i \in 0 .. cap - 1 :
                  /\ i <= Cardinality(Context) - 1
                  /\ m_handle_index' = (h + 1) % UintRange
                  /\ issued' = Remember(h)
                  /\ \/ h + 1 = index + i + 1
                     \/ /\ Meets0(index, i)
                        /\ \/ h + 1 = index + (cap + i + 1)
                           \/ h + 1 + UintRange = index + (cap + i + 1)
            <4>. HIDE DEF index, cap
            <4>. QED BY <1>0, <2>1, <2>2, <2>3, <3>1, PlaceAdvances, Zenon
        <3>3. i + 1 \in 1 .. Stride /\ cap + i + 1 \in 1 .. Stride
            BY <3>2, <2>2 DEF Stride
        <3>. HIDE DEF index, cap
        <3>4. index + i + 1 = index + (i + 1)
            BY <2>2, <3>1, <3>2
        <3>. QED BY <2>5, <3>1, <3>2, <3>3, <3>4
    <2>. QED BY <2>6, <2>7
<1>. QED BY <1>1, <1>2

\* The handles remembered after one more is issued.
LEMMA RememberAt ==
    ASSUME TypeOK, Len(issued) <= HISTORY, NEW h \in 1 .. UintRange - 1
    PROVE  /\ Len(Remember(h)) <= HISTORY
           /\ Len(Remember(h)) <= Len(issued) + 1
           /\ \A i \in 1 .. Len(Remember(h)) :
                  Remember(h)[i] = IF i = 1 THEN h ELSE issued[i - 1]
<1>. DEFINE S == 1 .. UintRange - 1
            s == <<h>> \o issued
            n == IF Len(issued) < HISTORY THEN Len(issued) + 1 ELSE HISTORY
<1>1. s \in Seq(S) /\ Len(s) = Len(issued) + 1 /\ issued \in Seq(S)
    BY DEF TypeOK
<1>2. n \in Nat /\ n <= Len(s) /\ n <= HISTORY
    BY <1>1, ContextMgrAssumption
<1>3. \A i \in 1 .. n : s[i] = IF i = 1 THEN h ELSE issued[i - 1]
    BY <1>1, <1>2
<1>4. Remember(h) = SubSeq(s, 1, n)
    BY DEF Remember
<1>. HIDE DEF s, n, S
<1>5. Len(SubSeq(s, 1, n)) = n /\ \A i \in 1 .. n : SubSeq(s, 1, n)[i] = s[i]
    BY <1>1, <1>2, SubSeqProperties
<1>. QED BY <1>1, <1>2, <1>3, <1>4, <1>5

\* One more handle leaves the older ones in order, each as far behind as the
\* index has moved, and forgets those that it could meet.
LEMMA WindowKept ==
    ASSUME HandlesInv, NEW h \in 1 .. UintRange - 1, NEW g \in 1 .. Stride,
           m_handle_index' = (h + 1) % UintRange, issued' = Remember(h),
           \/ h + 1 = m_handle_index + g
           \/ h + 1 + UintRange = m_handle_index + g
    PROVE  Window'
<1>0. /\ UintRange \in Nat \ {0} /\ m_handle_index \in 0 .. UintRange - 1
      /\ Cardinality(Context) \in Nat \ {0} /\ LargestCap \in Nat
      /\ h \in Nat /\ g \in Nat \ {0}
    BY HandleNumbers
<1>. USE <1>0
<1>1. /\ Len(issued') <= HISTORY
      /\ Len(issued') <= Len(issued) + 1
      /\ Len(issued') \in Nat /\ Len(issued) \in Nat
      /\ \A i \in 1 .. Len(issued') :
             issued'[i] = IF i = 1 THEN h ELSE issued[i - 1]
      /\ \A i \in 1 .. Len(issued) : issued[i] \in 1 .. UintRange - 1
    <2>1. issued \in Seq(1 .. UintRange - 1) /\ Len(issued) <= HISTORY /\ TypeOK
        BY DEF HandlesInv, IInv, TypeOK, Window
    <2>2. Remember(h) \in Seq(1 .. UintRange - 1)
        BY <2>1, RememberType
    <2>3. /\ Len(Remember(h)) <= HISTORY
          /\ Len(Remember(h)) <= Len(issued) + 1
          /\ \A i \in 1 .. Len(Remember(h)) :
                 Remember(h)[i] = IF i = 1 THEN h ELSE issued[i - 1]
        BY <2>1, RememberAt
    <2>4. Len(Remember(h)) \in Nat /\ Len(issued) \in Nat
        BY <2>1, <2>2
    <2>5. \A i \in 1 .. Len(issued) : issued[i] \in 1 .. UintRange - 1
        BY <2>1
    <2>6. issued' = Remember(h)
        OBVIOUS
    <2>. QED BY <2>3, <2>4, <2>5, <2>6
<1>2. m_handle_index' = IF h + 1 = UintRange THEN 0 ELSE h + 1
    <2>1. h + 1 \in Nat /\ h + 1 < 2 * UintRange
        OBVIOUS
    <2>2. (h + 1) % UintRange = IF h + 1 < UintRange THEN h + 1 ELSE h + 1 - UintRange
        <3>1. PICK x \in Nat : x = h + 1
            BY <2>1
        <3>2. x % UintRange = IF x < UintRange THEN x ELSE x - UintRange
            BY <2>1, <3>1, ModWrap
        <3>. QED BY <3>1, <3>2
    <2>3. PICK y : y = (h + 1) % UintRange
        OBVIOUS
    <2>4. y = IF h + 1 < UintRange THEN h + 1 ELSE h + 1 - UintRange
        BY <2>2, <2>3
    <2>5. m_handle_index' = y
        BY <2>3
    <2>6. y = IF h + 1 = UintRange THEN 0 ELSE h + 1
        BY <2>4
    <2>. QED BY <2>5, <2>6
<1>3. Behind(h)' = 1
    BY <1>2 DEF Behind
<1>4. Stride \in Nat /\ Stride >= 1 /\ HISTORY \in Nat
      /\ (HISTORY - 1) * Stride + 2 <= UintRange
    BY ContextMgrAssumption, HistoryAssumption DEF Stride
<1>5. ASSUME NEW i \in 1 .. Len(issued), i + 1 \in 1 .. Len(issued')
      PROVE  /\ Behind(issued[i + 1])' = Behind(issued[i]) + g
             /\ Behind(issued[i]) \in Nat \ {0}
             /\ Behind(issued[i]) + g <= 2 + i * Stride
    <2>1. PICK x \in 1 .. UintRange - 1 : x = issued[i] /\ x = issued'[i + 1]
        <3>1. i + 1 # 1 /\ (i + 1) - 1 = i
            OBVIOUS
        <3>2. issued'[i + 1] = issued[i]
            BY <1>1, <1>5, <3>1
        <3>. QED BY <1>1, <3>2
    <2>2. Behind(x) <= 2 + (i - 1) * Stride
        BY <2>1 DEF HandlesInv, Window
    <2>3. Behind(x) \in Nat \ {0}
        BY DEF Behind
    <2>4. PICK p \in Int, q \in Int, r \in Int :
              p = (i - 1) * Stride /\ q = i * Stride /\ r = (HISTORY - 1) * Stride
        BY <1>4
    <2>5. q = p + Stride
        BY <1>4, <2>4
    <2>6. q <= r
        <3>1. PICK k \in Nat : k = HISTORY - 1 - i
            BY <1>1, <1>4, <1>5
        <3>2. PICK m \in Nat : m = k * Stride
            BY <1>4
        <3>3. r = q + m
            BY <1>4, <2>4, <3>1, <3>2
        <3>. QED BY <3>2, <3>3
    <2>7. Behind(x) + g <= 2 + q /\ Behind(x) + g <= UintRange
        <3>1. Behind(x) <= 2 + p /\ g <= Stride /\ r + 2 <= UintRange
            BY <1>4, <2>2, <2>4
        <3>. QED BY <1>4, <2>3, <2>5, <2>6, <3>1
    <2>8. Behind(x)' = Behind(x) + g
        BY <1>2, <2>7 DEF Behind
    <2>9. Behind(issued[i + 1])' = Behind(x)' /\ Behind(issued[i]) = Behind(x)
        BY <2>1 DEF Behind
    <2>. QED BY <2>3, <2>4, <2>7, <2>8, <2>9
<1>6. 1 \in 1 .. Len(issued') => Behind(issued[1])' = 1
    <2>. SUFFICES ASSUME 1 \in 1 .. Len(issued')
                  PROVE  Behind(issued[1])' = 1
        OBVIOUS
    <2>1. issued'[1] = h
        BY <1>1
    <2>2. Behind(issued[1])' = Behind(h)'
        BY <2>1 DEF Behind
    <2>. QED BY <2>2, <1>3
<1>7. ASSUME NEW i \in 1 .. Len(issued')
      PROVE  Behind(issued[i])' <= 2 + (i - 1) * Stride
    <2>1. CASE i = 1
        <3>1. (i - 1) * Stride = 0
            BY <1>4, <2>1
        <3>. QED BY <1>6, <2>1, <3>1
    <2>2. CASE i # 1
        <3>1. PICK j \in 1 .. Len(issued) : i = j + 1
            <4>1. i - 1 \in 1 .. Len(issued) /\ i = (i - 1) + 1
                BY <1>1, <2>2
            <4>. QED BY <4>1
        <3>2. i - 1 = j
            BY <3>1
        <3>3. Behind(issued[i])' <= 2 + j * Stride
            BY <1>5, <3>1
        <3>. QED BY <3>2, <3>3
    <2>. QED BY <2>1, <2>2
<1>8. ASSUME NEW i \in 1 .. Len(issued'), NEW j \in 1 .. Len(issued'), i < j
      PROVE  Behind(issued[i])' < Behind(issued[j])'
    <2>1. PICK k \in 1 .. Len(issued) : j = k + 1
        <3>1. j - 1 \in 1 .. Len(issued) /\ j = (j - 1) + 1
            BY <1>1, <1>8
        <3>. QED BY <3>1
    <2>2. Behind(issued[j])' = Behind(issued[k]) + g /\ Behind(issued[k]) \in Nat \ {0}
        BY <1>5, <2>1
    <2>3. CASE i = 1
        BY <1>6, <2>2, <2>3
    <2>4. CASE i # 1
        <3>1. PICK m \in 1 .. Len(issued) : i = m + 1
            <4>1. i - 1 \in 1 .. Len(issued) /\ i = (i - 1) + 1
                BY <1>1, <2>4
            <4>. QED BY <4>1
        <3>2. Behind(issued[i])' = Behind(issued[m]) + g /\ Behind(issued[m]) \in Nat
            BY <1>5, <3>1
        <3>3. m < k
            BY <1>8, <2>1, <3>1
        <3>4. Behind(issued[m]) < Behind(issued[k])
            BY <3>3 DEF HandlesInv, Window
        <3>. QED BY <2>2, <3>2, <3>4
    <2>. QED BY <2>3, <2>4
<1>9. Len(issued') <= HISTORY
    BY <1>1
<1>. QED BY <1>9, <1>7, <1>8 DEF Window

\* Before the contexts count from 1, the logger has the largest handle, the
\* first one tried in the empty table.
LEMMA LoggerIsLargest ==
    ASSUME HandlesInv, NEW c \in Context, register_context(c), boot = "logger"
    PROVE  m_handle_index' = 0 /\ issued' = Remember(MAX_CTX_SIZE)
<1>. USE HandleNumbers
<1>1. /\ m_handle_index = MAX_CTX_SIZE
      /\ \A d \in Context : m_handle[d] = 0
    BY DEF HandlesInv, BootOrder, Registered
<1>2. \A s \in 0 .. m_slot_cap - 1 : m_ctx_slot[s] = NULL
    BY <1>1 DEF HandlesInv, IInv, SlotsAgree, TypeOK
<1>3. ~Full
    BY <1>2 DEF Full
<1>4. PICK i \in 0 .. m_slot_cap - 1 :
          LET handle == Handle(m_handle_index, m_slot_cap, i)
          IN  /\ \A j \in 0 .. i - 1 :
                     m_ctx_slot[Handle(m_handle_index, m_slot_cap, j) % m_slot_cap] # NULL
              /\ m_handle_index' = (handle + 1) % UintRange
              /\ issued' = Remember(handle)
    <2>1. Place(c, m_handle_index, m_slot_cap, m_ctx_slot)
        BY <1>3 DEF register_context
    <2>. QED BY <2>1 DEF Place
<1>5. i = 0
    <2>1. SUFFICES ASSUME i # 0
                   PROVE  FALSE
        OBVIOUS
    <2>2. 0 \in 0 .. i - 1 /\ 0 \in 0 .. m_slot_cap - 1
        BY <2>1
    <2>3. Handle(m_handle_index, m_slot_cap, 0) \in 1 .. UintRange - 1
        BY <2>2, HandleRange
    <2>4. Handle(m_handle_index, m_slot_cap, 0) % m_slot_cap \in 0 .. m_slot_cap - 1
        <3>1. PICK x \in Int : x = Handle(m_handle_index, m_slot_cap, 0)
            BY <2>3
        <3>2. x % m_slot_cap \in 0 .. m_slot_cap - 1
            BY ModRange
        <3>. QED BY <3>1, <3>2
    <2>. QED BY <1>2, <1>4, <2>2, <2>4
<1>6. Handle(m_handle_index, m_slot_cap, i) = MAX_CTX_SIZE
    <2>1. ~Meets0(m_handle_index, 0)
        BY <1>1 DEF Meets0, MAX_CTX_SIZE
    <2>2. MAX_CTX_SIZE \in Nat /\ MAX_CTX_SIZE < UintRange /\ MAX_CTX_SIZE < 2 * UintRange
        BY DEF MAX_CTX_SIZE
    <2>3. MAX_CTX_SIZE % UintRange = MAX_CTX_SIZE
        BY <2>2, ModWrap
    <2>4. m_handle_index + 0 = MAX_CTX_SIZE
        BY <1>1, <2>2
    <2>. QED BY <1>5, <2>1, <2>3, <2>4 DEF Handle
<1>7. (MAX_CTX_SIZE + 1) % UintRange = 0
    <2>1. PICK x \in Nat : x = MAX_CTX_SIZE + 1 /\ x = UintRange
        BY DEF MAX_CTX_SIZE
    <2>2. x < 2 * UintRange
        BY <2>1
    <2>3. x % UintRange = x - UintRange
        BY <2>1, <2>2, ModWrap
    <2>. QED BY <2>1, <2>3
<1>. QED BY <1>4, <1>6, <1>7

\* The empty registry satisfies the invariant about handles.
LEMMA InitHandles == Init => HandlesInv
<1>. SUFFICES ASSUME Init
              PROVE  HandlesInv
    OBVIOUS
<1>1. IInv
    BY InitInvariant
<1>2. CapDivides
    <2>1. Cardinality(Context) \in Nat
        BY FS_CardinalityType, ContextMgrAssumption
    <2>. QED BY <2>1, PowersOfTwo, ContextMgrAssumption DEF Init, CapDivides, LargestCap
<1>3. BootOrder
    BY DEF Init, BootOrder, Registered
<1>4. Window
    BY ContextMgrAssumption DEF Init, Window
<1>. QED BY <1>1, <1>2, <1>3, <1>4 DEF HandlesInv

\* Every step of the registry keeps the invariant about handles.
LEMMA StepHandles == HandlesInv /\ [Next]_vars => HandlesInv'
<1>. SUFFICES ASSUME HandlesInv, [Next]_vars
              PROVE  HandlesInv'
    OBVIOUS
<1>. USE HandleNumbers
<1>0. IInv'
    BY StepInvariant DEF HandlesInv
<1>1. CASE set_handle_index
    <2>1. CapDivides'
        BY <1>1 DEF HandlesInv, CapDivides, set_handle_index
    <2>2. UNCHANGED <<m_handle, issued>>
        BY <1>1 DEF set_handle_index
    <2>3. BootOrder'
        <3>1. Registered' = Registered
            BY <2>2 DEF Registered
        <3>2. CASE boot = "index_max"
            BY <1>1, <2>2, <3>1, <3>2 DEF HandlesInv, BootOrder, set_handle_index
        <3>3. CASE boot = "index_one"
            BY <1>1, <2>2, <3>1, <3>3 DEF HandlesInv, BootOrder, set_handle_index
        <3>. QED BY <1>1, <3>2, <3>3 DEF set_handle_index
    <2>4. Window'
        <3>1. CASE boot = "index_max"
            <4>1. issued' = << >>
                BY <2>2, <3>1 DEF HandlesInv, BootOrder
            <4>. QED BY <4>1, ContextMgrAssumption DEF Window
        <3>2. CASE boot = "index_one"
            <4>1. m_handle_index' = 1
                BY <1>1, <3>2 DEF set_handle_index
            <4>2. \A i \in 1 .. Len(issued) : i = 1 /\ issued[i] = MAX_CTX_SIZE
                BY <3>2 DEF HandlesInv, BootOrder
            <4>3. MAX_CTX_SIZE = UintRange - 1 /\ UintRange >= 8
                BY DEF MAX_CTX_SIZE
            <4>4. Behind(MAX_CTX_SIZE)' = 2
                BY <4>1, <4>3 DEF Behind
            <4>5. ASSUME NEW i \in 1 .. Len(issued)
                  PROVE  i = 1 /\ Behind(issued[i])' = 2
                BY <2>2, <4>2, <4>4 DEF Behind, MAX_CTX_SIZE
            <4>6. ASSUME NEW i \in 1 .. Len(issued)
                  PROVE  Behind(issued[i])' <= 2 + (i - 1) * Stride
                <5>1. (i - 1) * Stride = 0
                    BY <4>5 DEF Stride
                <5>. QED BY <4>5, <5>1
            <4>. QED BY <2>2, <4>5, <4>6 DEF HandlesInv, Window
        <3>. QED BY <1>1, <3>1, <3>2 DEF set_handle_index
    <2>. QED BY <1>0, <2>1, <2>3, <2>4 DEF HandlesInv
<1>2. ASSUME NEW c \in Context, register_context(c)
      PROVE  HandlesInv'
    <2>1. PICK h \in 1 .. UintRange - 1, g \in 1 .. Stride :
              /\ m_handle_index' = (h + 1) % UintRange
              /\ issued' = Remember(h)
              /\ \/ h + 1 = m_handle_index + g
                 \/ h + 1 + UintRange = m_handle_index + g
        BY <1>2, Advances
    <2>2. CapDivides'
        BY <1>2, Advances
    <2>3. Window'
        BY <2>1, WindowKept
    <2>4. BootOrder'
        <3>1. CASE boot = "logger"
            <4>1. boot' = "index_one"
                BY <1>2, <3>1 DEF register_context
            <4>2. m_handle_index' = 0 /\ issued' = Remember(MAX_CTX_SIZE)
                BY <1>2, <3>1, LoggerIsLargest
            <4>3. issued = << >> /\ Len(issued) = 0
                BY <3>1 DEF HandlesInv, BootOrder
            <4>4. MAX_CTX_SIZE \in 1 .. UintRange - 1
                BY DEF MAX_CTX_SIZE
            <4>5. ASSUME NEW i \in 1 .. Len(issued')
                  PROVE  i = 1 /\ issued'[i] = MAX_CTX_SIZE
                <5>1. Len(Remember(MAX_CTX_SIZE)) <= 1
                    BY <4>3, <4>4, RememberAt DEF HandlesInv, IInv, Window
                <5>2. i = 1
                    <6>1. Remember(MAX_CTX_SIZE) \in Seq(1 .. UintRange - 1)
                        BY <4>4, RememberType DEF HandlesInv, IInv
                    <6>. QED BY <4>2, <5>1, <6>1
                <5>3. Remember(MAX_CTX_SIZE)[i] = MAX_CTX_SIZE
                    BY <4>2, <4>4, <5>2, RememberAt DEF HandlesInv, IInv, Window
                <5>. QED BY <4>2, <5>2, <5>3
            <4>. QED BY <4>1, <4>2, <4>5 DEF BootOrder
        <3>2. CASE boot # "logger"
            <4>1. boot' = boot /\ boot = "done"
                BY <1>2, <3>2 DEF register_context
            <4>. QED BY <4>1 DEF BootOrder
        <3>. QED BY <3>1, <3>2
    <2>. QED BY <1>0, <2>2, <2>3, <2>4 DEF HandlesInv
<1>3. ASSUME NEW c \in Context, retire_context(c)
      PROVE  HandlesInv'
    <2>1. boot = "done" /\ UNCHANGED <<m_handle_index, m_slot_cap, boot, issued>>
        BY <1>3 DEF retire_context
    <2>2. CapDivides' /\ BootOrder'
        BY <2>1 DEF HandlesInv, CapDivides, BootOrder
    <2>3. Window'
        BY <2>1 DEF HandlesInv, Window, Behind
    <2>. QED BY <1>0, <2>2, <2>3 DEF HandlesInv
<1>4. CASE UNCHANGED vars
    <2>1. CapDivides' /\ BootOrder'
        BY <1>4 DEF vars, HandlesInv, CapDivides, BootOrder, Registered
    <2>2. Window'
        BY <1>4 DEF vars, HandlesInv, Window, Behind
    <2>. QED BY <1>0, <2>1, <2>2 DEF HandlesInv
<1>. QED BY <1>1, <1>2, <1>3, <1>4 DEF Next

\* Different handles, since they lie differently far behind.
LEMMA WindowFresh == HandlesInv => HandlesFresh
<1>. SUFFICES ASSUME HandlesInv, NEW i \in 1 .. Len(issued),
                     NEW j \in 1 .. Len(issued), issued[i] = issued[j]
              PROVE  i = j
    BY DEF HandlesFresh
<1>1. Behind(issued[i]) \in Int /\ Behind(issued[i]) = Behind(issued[j])
    <2>1. issued[i] \in Int /\ m_handle_index \in Int /\ UintRange \in Int
        BY HandleNumbers, ContextMgrAssumption DEF HandlesInv, IInv, TypeOK
    <2>2. Behind(issued[i]) \in Int
        BY <2>1 DEF Behind
    <2>. QED BY <2>2
<1>2. ~ i < j /\ ~ j < i
    BY <1>1 DEF HandlesInv, Window
<1>3. Len(issued) \in Nat
    BY DEF HandlesInv, IInv, TypeOK
<1>. QED BY <1>2, <1>3

\* Every registration ends with a slot, also where the handles wrap past 0, and
\* its handle is none of those given out lately, for every number of contexts,
\* capacity and range of handles (context_mgr.cpp:53-68).
THEOREM HandlesCorrect == Spec => []HandlesSound
<1>1. HandlesInv => HandlesSound
    BY SweepFinds, WindowFresh DEF HandlesSound
<1>. QED BY <1>1, InitHandles, StepHandles, PTL DEF Spec
=============================================================================
