-------------------------- MODULE ContextQueryProofs --------------------------
(***************************************************************************)
(* Proofs about ContextQuery: a reply resumes the code of its own query,   *)
(* and the caller's sessions and timers are those of what has not ended,   *)
(* for every number of queries and every range of session numbers that     *)
(* leaves room for them.                                                   *)
(*                                                                         *)
(* The argument: the numbers counted past since the first query, from the  *)
(* one issued last back to the one issued first, are all either in use for *)
(* other things or were issued to queries, and there are more numbers than *)
(* both; so the next free number lies ahead of them and has not been       *)
(* issued.  No two queries ever have the same number, and what has the     *)
(* number of a reply is its query.                                         *)
(*                                                                         *)
(* So a reply frees the number of its own query or nothing, and a timer    *)
(* that is closed in time ends nothing: the count of numbers in use stays  *)
(* right.                                                                  *)
(***************************************************************************)
EXTENDS ContextQuery, FiniteSetTheorems, WellFoundedInduction, TLAPS

\* A set of naturals has a least element.
LEMMA LeastExists ==
    ASSUME NEW S, S \subseteq Nat, S # {}
    PROVE  \E x \in S : \A y \in S : x <= y
<1>1. PICK R : R = OpToRel(<, Nat)
    OBVIOUS
<1>2. IsWellFoundedOn(R, Nat)
    BY <1>1, NatLessThanWellFounded
<1>3. PICK x \in S : \A y \in S : <<y, x>> \notin R
    BY <1>2, WFMin
<1>4. ASSUME NEW y \in S
      PROVE  x <= y
    <2>1. <<y, x>> \in R <=> y < x
        BY <1>1 DEF OpToRel
    <2>. QED BY <1>3, <2>1
<1>. QED BY <1>3, <1>4

-----------------------------------------------------------------------------
(* The numbers, counting down from the base.                                *)

\* How far below base b the number s is met.
Down(b, s) == (b - s) % INT_MAX

\* Down counts the numbers from s up to the base, round the wrap-around at INT_MAX.
LEMMA DownIs ==
    ASSUME NEW b \in 0 .. INT_MAX, NEW s \in Session
    PROVE  /\ Down(b, s) = IF s <= b THEN b - s ELSE b - s + INT_MAX
           /\ Down(b, s) \in 0 .. INT_MAX - 1
<1>1. INT_MAX \in Nat \ {0} /\ b \in Nat /\ s \in Nat /\ s >= 1
    BY QueryAssumption DEF Session
<1>2. PICK a \in Int : a = b - s
    BY <1>1
<1>3. a < INT_MAX /\ a >= -INT_MAX
    BY <1>1, <1>2 DEF Session
<1>4. a % INT_MAX = IF a >= 0 THEN a ELSE a + INT_MAX
    BY <1>1, <1>3
<1>5. Down(b, s) = IF a >= 0 THEN a ELSE a + INT_MAX
    BY <1>2, <1>4 DEF Down
<1>. QED BY <1>1, <1>2, <1>3, <1>5

\* A number that some query has had.
Issued(s) == \E q \in Query : session[q] = s

-----------------------------------------------------------------------------
(* The inductive invariant.                                                 *)

Entry == ({"reply"} \X Query \X Status) \cup ({"timeout"} \X Query)

SessionTypes ==
    /\ ref_session \in [Session -> Query \cup {0, NOT_A_QUERY}]
    /\ m_ref_session_base \in 0 .. INT_MAX
    /\ queries \in 0 .. MAX_QUERIES
    /\ session \in [Query -> Session \cup {LUA_REFNIL}]
    /\ sending \in Query \cup {0}
    /\ reply_queue \in Seq(Entry)
    /\ query_queue \in Seq(Query)
    /\ heard \subseteq Query

\* Queries that have not been made have no number.
Unmade == \A q \in Query : q > queries => session[q] = LUA_REFNIL

\* Numbers in use belong to other things, or to the query that has them.
Owned ==
    /\ \A s \in Session : ref_session[s] = NOT_A_QUERY <=> s \in Others
    /\ \A s \in Session : ref_session[s] \in Query => session[ref_session[s]] = s
    /\ \A q \in Query : session[q] \notin Others

\* No number is issued twice.
Distinct ==
    \A q, r \in Query : session[q] = session[r] /\ session[q] # LUA_REFNIL => q = r

\* From an issued number on, what will be met after it has been counted past: it
\* is in use for other things, or was issued as well.
Passed ==
    \A q \in Query, t \in Session :
        /\ session[q] # LUA_REFNIL
        /\ Down(m_ref_session_base, session[q]) <= Down(m_ref_session_base, t)
        => t \in Others \/ Issued(t)

\* Only queries that have a number are replied to.
Answered ==
    \A i \in 1 .. Len(reply_queue) :
        reply_queue[i][1] = "reply" => session[reply_queue[i][2]] # LUA_REFNIL

QueryInv ==
    SessionTypes /\ Unmade /\ Owned /\ Distinct /\ Passed /\ Answered /\ RepliesMatch

-----------------------------------------------------------------------------
(* A new number.                                                            *)

\* What the assumption on the constants says in numbers.
LEMMA Numbers ==
    /\ INT_MAX \in Nat \ {0} /\ MAX_QUERIES \in Nat
    /\ Cardinality(Others) \in Nat /\ IsFiniteSet(Others)
    /\ Others \subseteq Session
    /\ MAX_QUERIES + Cardinality(Others) <= INT_MAX
<1>1. IsFiniteSet(1 .. INT_MAX)
    BY QueryAssumption, FS_Interval
<1>2. IsFiniteSet(Others)
    BY <1>1, QueryAssumption, FS_Subset
<1>. QED BY <1>2, FS_CardinalityType, QueryAssumption DEF Session

\* There are more numbers than other things and queries made so far use.
LEMMA RoomLeft ==
    ASSUME QueryInv, queries + 1 \in Query
    PROVE  \E t \in Session : t \notin Others /\ ~Issued(t) /\ ref_session[t] = 0
<1>. DEFINE Q == 1 .. queries
            I == {session[q] : q \in Q}
<1>1. queries \in Nat /\ queries < MAX_QUERIES
    BY Numbers DEF QueryInv, SessionTypes, Query
<1>2. IsFiniteSet(Q) /\ Cardinality(Q) = queries
    BY <1>1, FS_Interval
<1>3. IsFiniteSet(I) /\ Cardinality(I) <= queries /\ Cardinality(I) \in Nat
    <2>. DEFINE f == [q \in Q |-> session[q]]
    <2>1. f \in Surjection(Q, I)
        BY DEF Surjection
    <2>2. IsFiniteSet(I) /\ Cardinality(I) <= Cardinality(Q)
        <3>. HIDE DEF f, Q, I
        <3>. QED BY <1>2, <2>1, FS_Surjection
    <2>. HIDE DEF f, I
    <2>. QED BY <1>2, <2>2, FS_CardinalityType
<1>4. IsFiniteSet(Others \cup I) /\ Cardinality(Others \cup I) <= Cardinality(Others) + queries
    <2>. HIDE DEF I
    <2>1. /\ IsFiniteSet(Others \cup I) /\ IsFiniteSet(Others \cap I)
          /\ Cardinality(Others \cup I)
                 = Cardinality(Others) + Cardinality(I) - Cardinality(Others \cap I)
        BY <1>3, Numbers, FS_Union, FS_Intersection
    <2>2. Cardinality(Others \cap I) \in Nat
        BY <2>1, FS_CardinalityType
    <2>. QED BY <1>1, <1>3, <2>1, <2>2, Numbers
<1>5. IsFiniteSet(Session) /\ Cardinality(Session) = INT_MAX
    BY Numbers, FS_Interval DEF Session
<1>6. PICK t \in Session : t \notin Others \cup I
    <2>1. SUFFICES ASSUME Session \subseteq Others \cup I
                   PROVE  FALSE
        OBVIOUS
    <2>2. Cardinality(Session) <= Cardinality(Others \cup I)
        <3>. HIDE DEF I
        <3>. QED BY <2>1, <1>4, FS_Subset
    <2>3. Cardinality(Others \cup I) \in Nat
        <3>. HIDE DEF I
        <3>. QED BY <1>4, FS_CardinalityType
    <2>. HIDE DEF I
    <2>. QED BY <2>2, <2>3, <1>1, <1>4, <1>5, Numbers
<1>7. ~Issued(t)
    <2>1. SUFFICES ASSUME NEW q \in Query, session[q] = t
                   PROVE  FALSE
        BY DEF Issued
    <2>2. t # LUA_REFNIL
        BY Numbers DEF Session, LUA_REFNIL
    <2>3. q \in Q
        <3>1. ~ q > queries
            BY <2>1, <2>2 DEF QueryInv, Unmade
        <3>. QED BY <3>1, <1>1 DEF Query
    <2>. QED BY <1>6, <2>1, <2>3
<1>8. ref_session[t] = 0
    <2>1. ref_session[t] # NOT_A_QUERY
        BY <1>6 DEF QueryInv, Owned
    <2>2. ref_session[t] \notin Query
        BY <1>7 DEF QueryInv, Owned, Issued
    <2>. QED BY <2>1, <2>2 DEF QueryInv, SessionTypes
<1>. QED BY <1>6, <1>7, <1>8

\* The number taken is free, the first free one met, and has not been issued.
LEMMA NewSession ==
    ASSUME QueryInv, queries + 1 \in Query
    PROVE  LET s == lua_ref_session
           IN  /\ s \in Session
               /\ ref_session[s] = 0
               /\ s \notin Others
               /\ ~Issued(s)
               /\ \A t \in Session : ref_session[t] = 0 =>
                      Down(m_ref_session_base, s) <= Down(m_ref_session_base, t)
<1>. DEFINE b == m_ref_session_base
            F == {t \in Session : ref_session[t] = 0}
            D == {Down(b, t) : t \in F}
<1>0. b \in 0 .. INT_MAX
    BY DEF QueryInv, SessionTypes
<1>1. PICK free \in Session : free \notin Others /\ ~Issued(free) /\ ref_session[free] = 0
    BY RoomLeft
<1>2. D \subseteq Nat /\ D # {}
    <2>. HIDE DEF b
    <2>1. \A t \in F : Down(b, t) \in Nat
        BY <1>0, DownIs, Numbers
    <2>. QED BY <1>1, <2>1
<1>3. PICK x \in D : \A y \in D : x <= y
    <2>. HIDE DEF D
    <2>. QED BY <1>2, LeastExists
<1>4. PICK l \in F : x = Down(b, l)
    BY <1>3
<1>5. \A t \in F : Down(b, l) <= Down(b, t)
    BY <1>3, <1>4
<1>6. PICK s : s = lua_ref_session
    OBVIOUS
<1>7. /\ s \in Session /\ ref_session[s] = 0
      /\ \A t \in Session : ref_session[t] = 0 => Down(b, s) <= Down(b, t)
    <2>1. \E c \in Session :
              /\ ref_session[c] = 0
              /\ \A t \in Session : ref_session[t] = 0 =>
                     (m_ref_session_base - c) % INT_MAX <= (m_ref_session_base - t) % INT_MAX
        BY <1>4, <1>5 DEF Down
    <2>2. s = CHOOSE c \in Session :
              /\ ref_session[c] = 0
              /\ \A t \in Session : ref_session[t] = 0 =>
                     (m_ref_session_base - c) % INT_MAX <= (m_ref_session_base - t) % INT_MAX
        BY <1>6 DEF lua_ref_session
    <2>. QED BY <2>1, <2>2 DEF Down
<1>8. s \notin Others
    BY <1>7 DEF QueryInv, Owned, NOT_A_QUERY
<1>9. ~Issued(s)
    <2>1. SUFFICES ASSUME NEW q \in Query, session[q] = s
                   PROVE  FALSE
        BY DEF Issued
    <2>2. session[q] # LUA_REFNIL
        BY <1>7, <2>1, Numbers DEF Session, LUA_REFNIL
    <2>3. Down(b, session[q]) <= Down(b, free)
        BY <1>1, <1>7, <2>1
    <2>. QED BY <1>1, <2>2, <2>3 DEF QueryInv, Passed
<1>. QED BY <1>6, <1>7, <1>8, <1>9

-----------------------------------------------------------------------------
(* The steps.                                                               *)

\* A context that has made no query satisfies the invariant.
LEMMA InitQuery == QueryInit => QueryInv
<1>. SUFFICES ASSUME QueryInit
              PROVE  QueryInv
    OBVIOUS
<1>. USE DEF QueryInit
<1>1. SessionTypes
    <2>1. << >> \in Seq(Entry) /\ << >> \in Seq(Query)
        OBVIOUS
    <2>2. ref_session \in [Session -> Query \cup {0, NOT_A_QUERY}]
        OBVIOUS
    <2>3. m_ref_session_base \in 0 .. INT_MAX /\ queries \in 0 .. MAX_QUERIES
        BY QueryAssumption
    <2>. QED BY <2>1, <2>2, <2>3 DEF SessionTypes
<1>2. Unmade
    BY DEF Unmade
<1>3. Owned
    <2>1. 0 \notin Query /\ NOT_A_QUERY \notin Query /\ LUA_REFNIL \notin Others
        BY QueryAssumption DEF Query, NOT_A_QUERY, LUA_REFNIL
    <2>. QED BY <2>1 DEF Owned, NOT_A_QUERY
<1>4. Distinct /\ Passed /\ Answered /\ RepliesMatch
    BY DEF Distinct, Passed, Answered, RepliesMatch
<1>. QED BY <1>1, <1>2, <1>3, <1>4 DEF QueryInv

\* Numbers are given out and used by queries only, and freed by their end.
LEMMA NumbersKept ==
    ASSUME QueryInv, UNCHANGED <<m_ref_session_base, queries, session>>,
           \/ UNCHANGED ref_session
           \/ \E q \in Query :
                  ref_session' = [ref_session EXCEPT ![session[q]] = 0]
    PROVE  Unmade' /\ Owned' /\ Distinct' /\ Passed'
           /\ ref_session' \in [Session -> Query \cup {0, NOT_A_QUERY}]
<1>1. Unmade' /\ Distinct' /\ Passed'
    BY DEF QueryInv, Unmade, Distinct, Passed, Issued
<1>2. ASSUME NEW s \in Session
      PROVE  /\ ref_session'[s] = NOT_A_QUERY <=> s \in Others
             /\ ref_session'[s] \in Query => session[ref_session'[s]] = s
             /\ ref_session'[s] \in Query \cup {0, NOT_A_QUERY}
    <2>0. 0 \notin Query /\ 0 # NOT_A_QUERY
        BY DEF Query, NOT_A_QUERY
    <2>1. \/ ref_session'[s] = ref_session[s]
          \/ ref_session'[s] = 0 /\ s \notin Others
        BY DEF QueryInv, SessionTypes, Owned
    <2>. QED BY <2>0, <2>1 DEF QueryInv, SessionTypes, Owned
<1>3. Owned'
    BY <1>2 DEF QueryInv, Owned
<1>4. ref_session' \in [Session -> Query \cup {0, NOT_A_QUERY}]
    <2>1. ref_session' = [s \in Session |-> ref_session'[s]]
        BY DEF QueryInv, SessionTypes
    <2>. QED BY <1>2, <2>1
<1>. QED BY <1>1, <1>3, <1>4

\* A new query: its number is the first free one, and the base goes below it.
LEMMA QueryStep ==
    ASSUME QueryInv, query
    PROVE  QueryInv'
<1>. DEFINE q == queries + 1
<1>0. PICK s : s = lua_ref_session
    OBVIOUS
<1>1. /\ q \in Query /\ queries' = q
      /\ session' = [session EXCEPT ![q] = s]
      /\ m_ref_session_base' = s - 1
      /\ \/ ref_session' = [ref_session EXCEPT ![s] = q] /\ sending' = q
         \/ UNCHANGED <<ref_session, sending>>
      /\ UNCHANGED <<resumed, reply_queue, query_queue, heard>>
    BY <1>0 DEF query
<1>2. /\ s \in Session /\ ref_session[s] = 0 /\ s \notin Others
      /\ ~Issued(s)
      /\ \A t \in Session : ref_session[t] = 0 =>
             Down(m_ref_session_base, s) <= Down(m_ref_session_base, t)
    BY <1>0, <1>1, NewSession
<1>3. /\ queries \in Nat /\ s \in 1 .. INT_MAX /\ 0 \notin Query
      /\ NOT_A_QUERY \notin Query /\ NOT_A_QUERY # 0
    BY <1>2, Numbers DEF QueryInv, SessionTypes, Session, Query, NOT_A_QUERY
<1>4. \A r \in Query : session[r] # s
    BY <1>2 DEF Issued
<1>5. session[q] = LUA_REFNIL
    BY <1>1, <1>3 DEF QueryInv, Unmade
<1>6. \A r \in Query : session'[r] = IF r = q THEN s ELSE session[r]
    BY <1>1 DEF QueryInv, SessionTypes
<1>7. \A t \in Session : \/ ref_session'[t] = ref_session[t]
                         \/ t = s /\ ref_session'[t] = q
    BY <1>1 DEF QueryInv, SessionTypes
<1>8. SessionTypes'
    <2>1. ref_session' \in [Session -> Query \cup {0, NOT_A_QUERY}]
        BY <1>1, <1>2 DEF QueryInv, SessionTypes
    <2>2. session' \in [Query -> Session \cup {LUA_REFNIL}]
        BY <1>1, <1>2 DEF QueryInv, SessionTypes
    <2>3. m_ref_session_base' \in 0 .. INT_MAX
        BY <1>1, <1>3, Numbers
    <2>4. queries' \in 0 .. MAX_QUERIES /\ sending' \in Query \cup {0}
        BY <1>1, <1>3, Numbers DEF QueryInv, SessionTypes, Query
    <2>. HIDE DEF q
    <2>5. reply_queue' \in Seq(Entry) /\ query_queue' \in Seq(Query) /\ heard' \subseteq Query
        BY <1>1 DEF QueryInv, SessionTypes
    <2>. QED BY <2>1, <2>2, <2>3, <2>4, <2>5 DEF SessionTypes
<1>9. Unmade'
    <2>1. ASSUME NEW r \in Query, r > queries'
          PROVE  session'[r] = LUA_REFNIL
        <3>1. r # q /\ r > queries
            BY <1>1, <1>3, <2>1 DEF Query
        <3>. QED BY <1>6, <3>1 DEF QueryInv, Unmade
    <2>. QED BY <2>1 DEF Unmade
<1>10. Owned'
    <2>1. ASSUME NEW t \in Session
          PROVE  /\ ref_session'[t] = NOT_A_QUERY <=> t \in Others
                 /\ ref_session'[t] \in Query => session'[ref_session'[t]] = t
        <3>1. CASE ref_session'[t] = ref_session[t]
            <4>1. ASSUME ref_session[t] \in Query
                  PROVE  session'[ref_session[t]] = t
                <5>1. session[ref_session[t]] = t
                    BY <4>1 DEF QueryInv, Owned
                <5>2. ref_session[t] # q
                    BY <5>1, <1>5, Numbers DEF Session, LUA_REFNIL
                <5>. QED BY <4>1, <5>1, <5>2, <1>6
            <4>. QED BY <3>1, <4>1 DEF QueryInv, Owned
        <3>2. CASE t = s /\ ref_session'[t] = q
            BY <3>2, <1>1, <1>2, <1>3, <1>6
        <3>. QED BY <1>7, <3>1, <3>2
    <2>2. \A r \in Query : session'[r] \notin Others
        BY <1>2, <1>6 DEF QueryInv, Owned
    <2>. QED BY <2>1, <2>2 DEF Owned
<1>11. Distinct'
    BY <1>4, <1>6 DEF QueryInv, Distinct
<1>12. Passed'
    <2>1. ASSUME NEW r \in Query, NEW t \in Session, session'[r] # LUA_REFNIL,
                 Down(s - 1, session'[r]) <= Down(s - 1, t)
          PROVE  t \in Others \/ Issued(t)'
        <3>. DEFINE b == m_ref_session_base
        <3>0. b \in 0 .. INT_MAX /\ s - 1 \in 0 .. INT_MAX
            BY <1>3, Numbers DEF QueryInv, SessionTypes
        <3>1. Issued(t) => Issued(t)'
            <4>1. ASSUME NEW v \in Query, session[v] = t
                  PROVE  session'[v] = t
                <5>1. t # LUA_REFNIL
                    BY Numbers DEF Session, LUA_REFNIL
                <5>2. v # q
                    BY <4>1, <5>1, <1>5
                <5>. QED BY <4>1, <5>2, <1>6
            <4>. QED BY <4>1 DEF Issued
        <3>2. CASE t = s
            BY <3>2, <1>1, <1>6 DEF Issued
        <3>3. CASE t # s /\ Down(b, t) <= Down(b, s)
            <4>1. ref_session[t] # 0
                <5>1. Down(b, t) # Down(b, s)
                    <6>. HIDE DEF b
                    <6>1. /\ Down(b, t) = IF t <= b THEN b - t ELSE b - t + INT_MAX
                          /\ Down(b, s) = IF s <= b THEN b - s ELSE b - s + INT_MAX
                        BY <3>0, <1>2, DownIs
                    <6>. QED BY <3>0, <3>3, <1>3, <6>1, Numbers DEF Session
                <5>2. Down(b, t) \in Int /\ Down(b, s) \in Int
                    <6>. HIDE DEF b
                    <6>. QED BY <3>0, <1>2, DownIs, Numbers
                <5>. QED BY <3>3, <5>1, <5>2, <1>2
            <4>2. t \in Others \/ Issued(t)
                BY <4>1 DEF QueryInv, SessionTypes, Owned, Issued
            <4>. QED BY <3>1, <4>2
        <3>4. CASE t # s /\ ~ Down(b, t) <= Down(b, s)
            <4>1. PICK u \in Session : u = session'[r]
                BY <2>1, <1>8 DEF SessionTypes
            <4>2. u # s /\ Down(b, u) <= Down(b, t)
                <5>. HIDE DEF b
                <5>1. /\ Down(b, t) = IF t <= b THEN b - t ELSE b - t + INT_MAX
                      /\ Down(b, s) = IF s <= b THEN b - s ELSE b - s + INT_MAX
                      /\ Down(b, u) = IF u <= b THEN b - u ELSE b - u + INT_MAX
                    BY <3>0, <1>2, DownIs
                <5>2. PICK c \in 0 .. INT_MAX : c = s - 1
                    BY <3>0
                <5>3. /\ Down(c, t) = IF t <= c THEN c - t ELSE c - t + INT_MAX
                      /\ Down(c, u) = IF u <= c THEN c - u ELSE c - u + INT_MAX
                    BY DownIs
                <5>4. Down(c, u) <= Down(c, t)
                    BY <2>1, <4>1, <5>2
                <5>. QED BY <3>0, <3>4, <5>1, <5>2, <5>3, <5>4, <1>3, Numbers DEF Session
            <4>3. r # q /\ u = session[r]
                BY <4>1, <4>2, <1>6
            <4>. QED BY <2>1, <3>1, <4>1, <4>2, <4>3 DEF QueryInv, Passed
        <3>. QED BY <3>2, <3>3, <3>4
    <2>. QED BY <2>1, <1>1 DEF Passed
<1>13. Answered'
    <2>1. ASSUME NEW i \in 1 .. Len(reply_queue), reply_queue[i][1] = "reply"
          PROVE  session'[reply_queue[i][2]] # LUA_REFNIL
        <3>1. reply_queue[i] \in Entry /\ session[reply_queue[i][2]] # LUA_REFNIL
            BY <2>1 DEF QueryInv, SessionTypes, Answered
        <3>2. reply_queue[i][2] \in Query
            BY <2>1, <3>1 DEF Entry
        <3>. QED BY <1>5, <1>6, <3>1, <3>2
    <2>. QED BY <1>1, <2>1 DEF Answered
<1>14. RepliesMatch'
    BY <1>1 DEF QueryInv, RepliesMatch
<1>. QED BY <1>8, <1>9, <1>10, <1>11, <1>12, <1>13, <1>14 DEF QueryInv

\* What is left to check when a step leaves the numbers alone, or frees one.
LEMMA Keeps ==
    ASSUME QueryInv, UNCHANGED <<m_ref_session_base, queries, session, resumed>>,
           \/ UNCHANGED ref_session
           \/ \E q \in Query :
                  ref_session' = [ref_session EXCEPT ![session[q]] = 0],
           sending' \in Query \cup {0},
           reply_queue' \in Seq(Entry), query_queue' \in Seq(Query),
           heard' \subseteq Query,
           Answered'
    PROVE  QueryInv'
<1>1. SessionTypes'
    BY NumbersKept DEF QueryInv, SessionTypes
<1>2. Unmade' /\ Owned' /\ Distinct' /\ Passed'
    BY NumbersKept
<1>3. RepliesMatch'
    BY DEF QueryInv, RepliesMatch
<1>. QED BY <1>1, <1>2, <1>3 DEF QueryInv

\* What is taken from a queue was in it, and the others stay.
LEMMA TailOf ==
    ASSUME NEW S, NEW s \in Seq(S), s # << >>
    PROVE  /\ Head(s) \in S /\ Head(s) = s[1] /\ Len(s) \in Nat /\ Len(s) >= 1
           /\ Tail(s) \in Seq(S)
           /\ Len(Tail(s)) = Len(s) - 1
           /\ \A i \in 1 .. Len(Tail(s)) : Tail(s)[i] = s[i + 1]
OBVIOUS

\* A reply that is taken from the queue leaves only replies to queries with a
\* number.
LEMMA ReplyTaken ==
    ASSUME QueryInv, reply_queue # << >>, reply_queue' = Tail(reply_queue),
           UNCHANGED session
    PROVE  /\ reply_queue' \in Seq(Entry)
           /\ Answered'
           /\ Head(reply_queue) \in Entry
           /\ Head(reply_queue)[1] = "reply" =>
                  session[Head(reply_queue)[2]] # LUA_REFNIL
<1>1. reply_queue \in Seq(Entry)
    BY DEF QueryInv, SessionTypes
<1>. HIDE DEF Entry
<1>2. /\ Head(reply_queue) \in Entry /\ Head(reply_queue) = reply_queue[1]
      /\ Len(reply_queue) \in Nat /\ Len(reply_queue) >= 1
      /\ reply_queue' \in Seq(Entry)
      /\ Len(reply_queue') = Len(reply_queue) - 1
      /\ \A i \in 1 .. Len(reply_queue') : reply_queue'[i] = reply_queue[i + 1]
    BY <1>1, TailOf
<1>3. Answered'
    <2>1. ASSUME NEW i \in 1 .. Len(reply_queue'), reply_queue'[i][1] = "reply"
          PROVE  session'[reply_queue'[i][2]] # LUA_REFNIL
        <3>1. i + 1 \in 1 .. Len(reply_queue) /\ reply_queue'[i] = reply_queue[i + 1]
            BY <1>2
        <3>. QED BY <2>1, <3>1 DEF QueryInv, Answered
    <2>. QED BY <2>1 DEF Answered
<1>4. Head(reply_queue)[1] = "reply" => session[Head(reply_queue)[2]] # LUA_REFNIL
    BY <1>2 DEF QueryInv, Answered
<1>. QED BY <1>2, <1>3, <1>4

\* An entry that is added keeps it so, if it is a timer or a query has a number.
LEMMA EntryAdded ==
    ASSUME QueryInv, NEW e \in Entry,
           e[1] = "reply" => session[e[2]] # LUA_REFNIL,
           reply_queue' = Append(reply_queue, e), UNCHANGED session
    PROVE  reply_queue' \in Seq(Entry) /\ Answered'
<1>1. reply_queue \in Seq(Entry)
    BY DEF QueryInv, SessionTypes
<1>. HIDE DEF Entry
<1>2. /\ reply_queue' \in Seq(Entry)
      /\ Len(reply_queue) \in Nat
      /\ Len(reply_queue') = Len(reply_queue) + 1
      /\ \A i \in 1 .. Len(reply_queue) : reply_queue'[i] = reply_queue[i]
      /\ reply_queue'[Len(reply_queue) + 1] = e
    BY <1>1
<1>3. ASSUME NEW i \in 1 .. Len(reply_queue'), reply_queue'[i][1] = "reply"
      PROVE  session'[reply_queue'[i][2]] # LUA_REFNIL
    <2>1. CASE i \in 1 .. Len(reply_queue)
        BY <1>2, <1>3, <2>1 DEF QueryInv, Answered
    <2>2. CASE i = Len(reply_queue) + 1
        BY <1>2, <1>3, <2>2
    <2>. QED BY <1>2, <2>1, <2>2
<1>. QED BY <1>2, <1>3 DEF Answered

\* A reply that is sent goes to a query with a number.
LEMMA ReplySent ==
    ASSUME QueryInv, NEW q \in Query, NEW status \in Status,
           SendReply(q, status), UNCHANGED session
    PROVE  reply_queue' \in Seq(Entry) /\ Answered'
<1>1. CASE session[q] # LUA_REFNIL
    <2>1. PICK e : e = <<"reply", q, status>>
        OBVIOUS
    <2>2. e \in Entry /\ e[1] = "reply" /\ e[2] = q
        BY <2>1 DEF Entry
    <2>3. reply_queue' = Append(reply_queue, e)
        BY <1>1, <2>1 DEF SendReply
    <2>. QED BY <1>1, <2>2, <2>3, EntryAdded
<1>2. CASE session[q] = LUA_REFNIL
    <2>1. reply_queue' = reply_queue
        BY <1>2 DEF SendReply
    <2>. QED BY <2>1 DEF QueryInv, SessionTypes, Answered
<1>. QED BY <1>1, <1>2

\* The reply to a query resumes that query, or nothing.
LEMMA ReplyStep ==
    ASSUME QueryInv, response_context_reply
    PROVE  QueryInv'
<1>. DEFINE by == Head(reply_queue)[2]
            of == ref_session[session[by]]
<1>1. /\ reply_queue # << >> /\ Head(reply_queue)[1] = "reply"
      /\ reply_queue' = Tail(reply_queue)
      /\ UNCHANGED <<m_ref_session_base, session, queries, sending, query_queue, heard>>
    BY DEF response_context_reply, ReceiveReply
<1>2. /\ reply_queue' \in Seq(Entry) /\ Answered'
      /\ Head(reply_queue) \in Entry
      /\ session[by] # LUA_REFNIL
    BY <1>1, ReplyTaken
<1>3. by \in Query
    BY <1>2 DEF Entry
<1>4. session[by] \in Session /\ session[by] \notin Others
    BY <1>2, <1>3 DEF QueryInv, SessionTypes, Owned
<1>5. of # NOT_A_QUERY
    BY <1>4 DEF QueryInv, Owned
<1>6. of \in Query => of = by
    BY <1>2, <1>3, <1>4 DEF QueryInv, Owned, Distinct
<1>7. RepliesMatch'
    <2>1. resumed' \subseteq resumed \cup {<<by, by>>}
        BY <1>5, <1>6 DEF response_context_reply
    <2>. QED BY <2>1 DEF QueryInv, RepliesMatch
<1>8. \/ UNCHANGED ref_session
      \/ \E q \in Query : ref_session' = [ref_session EXCEPT ![session[q]] = 0]
    BY DEF response_context_reply, lua_free_ref_session
<1>. HIDE DEF by, of
<1>9. Unmade' /\ Owned' /\ Distinct' /\ Passed'
      /\ ref_session' \in [Session -> Query \cup {0, NOT_A_QUERY}]
    BY <1>1, <1>8, NumbersKept
<1>10. SessionTypes'
    BY <1>1, <1>2, <1>9 DEF QueryInv, SessionTypes
<1>. QED BY <1>2, <1>7, <1>9, <1>10 DEF QueryInv

\* Every step of queries, answers, time-outs and replies keeps the invariant.
LEMMA StepQuery == QueryInv /\ [QueryNext]_queryVars => QueryInv'
<1>. SUFFICES ASSUME QueryInv, [QueryNext]_queryVars
              PROVE  QueryInv'
    OBVIOUS
<1>0. /\ sending \in Query \cup {0} /\ reply_queue \in Seq(Entry)
      /\ query_queue \in Seq(Query) /\ heard \subseteq Query /\ Answered
    BY DEF QueryInv, SessionTypes
<1>1. CASE query
    BY <1>1, QueryStep
<1>2. CASE send
    <2>1. PICK q \in Query : q = queries + 1 /\ queries' = q
        BY <1>2 DEF send
    <2>2. UNCHANGED <<sessions, resumed, reply_queue, query_queue, heard>>
        BY <1>2 DEF send
    <2>3. sending' \in Query \cup {0} /\ queries' \in 0 .. MAX_QUERIES
        BY <1>0, <1>2, <2>1, Numbers DEF send, Query
    <2>4. Unmade'
        <3>1. queries \in Nat
            BY Numbers DEF QueryInv, SessionTypes
        <3>. QED BY <2>1, <2>2, <3>1 DEF sessions, QueryInv, Unmade, Query
    <2>5. SessionTypes' /\ Owned' /\ Distinct' /\ Passed' /\ Answered' /\ RepliesMatch'
        BY <2>2, <2>3
           DEF sessions, QueryInv, SessionTypes, Owned, Distinct, Passed, Issued,
               Answered, RepliesMatch
    <2>. QED BY <2>4, <2>5 DEF QueryInv
<1>3. CASE push_query
    <2>1. /\ query_queue' = Append(query_queue, sending) /\ sending \in Query
          /\ sending' = 0
          /\ UNCHANGED <<sessions, queries, resumed, reply_queue, heard>>
        BY <1>0, <1>3 DEF push_query
    <2>2. query_queue' \in Seq(Query)
        BY <1>0, <2>1
    <2>3. Answered' /\ reply_queue' \in Seq(Entry) /\ heard' \subseteq Query
        BY <1>0, <2>1 DEF Answered, sessions
    <2>4. sending' \in Query \cup {0}
        BY <2>1
    <2>. QED BY <2>1, <2>2, <2>3, <2>4, Keeps DEF sessions
<1>4. ASSUME NEW q \in Query, query_timedout(q)
      PROVE  QueryInv'
    <2>1. /\ reply_queue' = Append(reply_queue, <<"timeout", q>>)
          /\ UNCHANGED <<sessions, queries, resumed, sending, query_queue, heard>>
        BY <1>4 DEF query_timedout
    <2>2. PICK e : e = <<"timeout", q>>
        OBVIOUS
    <2>3. e \in Entry /\ e[1] # "reply"
        BY <2>2 DEF Entry
    <2>4. reply_queue' \in Seq(Entry) /\ Answered'
        BY <2>1, <2>2, <2>3, EntryAdded DEF sessions
    <2>5. /\ sending' \in Query \cup {0} /\ query_queue' \in Seq(Query)
          /\ heard' \subseteq Query
        BY <1>0, <2>1
    <2>. QED BY <2>1, <2>4, <2>5, Keeps DEF sessions
<1>5. CASE response_context_reply
    BY <1>5, ReplyStep
<1>6. CASE response_query_timeout
    <2>1. /\ reply_queue # << >> /\ reply_queue' = Tail(reply_queue)
          /\ UNCHANGED <<m_ref_session_base, session, queries, resumed, sending,
                         query_queue, heard>>
        BY <1>6 DEF response_query_timeout, ReceiveReply
    <2>2. /\ reply_queue' \in Seq(Entry) /\ Answered'
          /\ Head(reply_queue) \in Entry
        BY <2>1, ReplyTaken
    <2>3. PICK q \in Query : q = Head(reply_queue)[2]
        BY <2>2 DEF Entry
    <2>4. \/ UNCHANGED ref_session
          \/ ref_session' = [ref_session EXCEPT ![session[q]] = 0]
        BY <1>6, <2>3 DEF response_query_timeout, lua_free_ref_session
    <2>5. /\ sending' \in Query \cup {0} /\ query_queue' \in Seq(Query)
          /\ heard' \subseteq Query
        BY <1>0, <2>1
    <2>. QED BY <2>1, <2>2, <2>4, <2>5, Keeps
<1>7. ASSUME UNCHANGED <<caller, reply_queue>>,
             query_queue' \in Seq(Query), heard' \subseteq Query
      PROVE  QueryInv'
    <2>1. /\ sending' \in Query \cup {0} /\ reply_queue' \in Seq(Entry)
          /\ Answered'
        BY <1>0, <1>7 DEF caller, sessions, Answered
    <2>. QED BY <1>7, <2>1, Keeps DEF caller, sessions
<1>8. ASSUME UNCHANGED <<caller, reply_queue, query_queue, heard>>
      PROVE  QueryInv'
    BY <1>0, <1>7, <1>8
<1>9. CASE response_context_query
    <2>1. query_queue # << >> /\ query_queue' = Tail(query_queue) /\ UNCHANGED caller
        BY <1>9 DEF response_context_query
    <2>2. PICK q \in Query : q = Head(query_queue)
        BY <1>0, <2>1, TailOf
    <2>3. query_queue' \in Seq(Query)
        BY <1>0, <2>1, TailOf
    <2>4. \/ heard' = heard \cup {q} /\ UNCHANGED reply_queue
          \/ SendReply(q, "NL_ENOREPLY") /\ UNCHANGED heard
        BY <1>9, <2>2 DEF response_context_query
    <2>5. CASE heard' = heard \cup {q} /\ UNCHANGED reply_queue
        BY <1>0, <1>7, <2>1, <2>3, <2>5
    <2>6. CASE SendReply(q, "NL_ENOREPLY") /\ UNCHANGED heard
        <3>1. reply_queue' \in Seq(Entry) /\ Answered'
            BY <2>1, <2>6, ReplySent DEF caller, sessions, Status
        <3>2. sending' \in Query \cup {0} /\ heard' \subseteq Query
            BY <1>0, <2>1, <2>6 DEF caller
        <3>. QED BY <2>1, <2>3, <3>1, <3>2, Keeps DEF caller, sessions
    <2>. QED BY <2>4, <2>5, <2>6
<1>10. ASSUME NEW q \in Query, NEW status \in {"reply", "NL_ETRANSTYPE"},
              reply(q, status)
       PROVE  QueryInv'
    <2>1. UNCHANGED <<caller, query_queue>> /\ heard' \subseteq heard
          /\ SendReply(q, status)
        BY <1>10 DEF reply
    <2>2. reply_queue' \in Seq(Entry) /\ Answered'
        BY <2>1, ReplySent DEF caller, sessions, Status
    <2>3. /\ sending' \in Query \cup {0} /\ heard' \subseteq Query
          /\ query_queue' \in Seq(Query)
        BY <1>0, <2>1 DEF caller
    <2>. QED BY <2>1, <2>2, <2>3, Keeps DEF caller, sessions
<1>11. CASE destroy
    BY <1>8, <1>11 DEF destroy
<1>12. CASE query_dropped
    <2>1. /\ query_queue # << >> /\ query_queue' = Tail(query_queue)
          /\ UNCHANGED <<caller, heard>>
          /\ SendReply(Head(query_queue), "NL_ENOREPLY")
        BY <1>12 DEF query_dropped
    <2>2. Head(query_queue) \in Query /\ query_queue' \in Seq(Query)
        BY <1>0, <2>1, TailOf
    <2>3. reply_queue' \in Seq(Entry) /\ Answered'
        BY <2>1, <2>2, ReplySent DEF caller, sessions, Status
    <2>4. sending' \in Query \cup {0} /\ heard' \subseteq Query
        BY <1>0, <2>1 DEF caller
    <2>. QED BY <2>1, <2>2, <2>3, <2>4, Keeps DEF caller, sessions
<1>13. CASE UNCHANGED queryVars
    BY <1>8, <1>13 DEF queryVars
<1>. QED
    BY <1>1, <1>2, <1>3, <1>4, <1>5, <1>6, <1>9, <1>10, <1>11, <1>12, <1>13
    DEF QueryNext

\* Two things a context waits for never have the same session number, and a
\* number on its way back still means what it meant when it was sent
\* (context_lua.cpp:461-485, 653-687).
THEOREM SessionsNeverShared == QuerySpec => []QueryInv
<1>. QED BY InitQuery, StepQuery, PTL DEF QuerySpec

\* A reply resumes the code of its own query and never that of another one or of
\* anything else, whatever is freed or expires while it is on its way, for every
\* number of queries and every range of session numbers with room for them
\* (context_lua.cpp:461-485, 653-687).
THEOREM RepliesReachTheirQuery == QuerySpec => []RepliesMatch
<1>1. QueryInv => RepliesMatch
    BY DEF QueryInv
<1>. QED BY <1>1, SessionsNeverShared, PTL

-----------------------------------------------------------------------------
(* The sessions of the caller.                                              *)

CallerTypes ==
    /\ timer \in [Query -> {"none", "running", "expired", "closed"}]
    /\ result \in [Query -> Status \cup
                   {"unused", "pending", "sent", "NL_ENOCONTEXT", "NL_ETIMEOUT"}]
    /\ resumed \subseteq (Query \cup {NOT_A_QUERY}) \X Query

\* A query that has not been made has nothing; one that is about to be pushed has no
\* timer yet and cannot have ended.
InHand ==
    /\ \A q \in Query : q > queries => result[q] = "unused" /\ timer[q] = "none"
    /\ sending # 0 =>
           /\ timer[sending] = "none"
           /\ session[sending] # LUA_REFNIL => result[sending] = "pending"

\* A query is pending as long as its session is there, and the other way round.
Awaited ==
    /\ \A q \in Query : result[q] = "pending" =>
           session[q] \in Session /\ ref_session[session[q]] = q
    /\ \A s \in Session : ref_session[s] \in Query => result[ref_session[s]] = "pending"

InUse == {s \in Session : ref_session[s] # 0}

\* A timer that has not been closed is that of a pending query; one whose message is
\* queued has expired, and may have been closed since.
Timed ==
    /\ \A q \in Query : timer[q] \in {"running", "expired"} => result[q] = "pending"
    /\ \A i \in 1 .. Len(reply_queue) : reply_queue[i][1] = "timeout" =>
           timer[reply_queue[i][2]] \in {"expired", "closed"}

CallerInv ==
    /\ CallerTypes
    /\ InHand
    /\ Awaited
    /\ ref_session_count = Cardinality(InUse)
    /\ Timed

\* There are finitely many numbers.
LEMMA UsedFinite == IsFiniteSet(InUse) /\ Cardinality(InUse) \in 0 .. INT_MAX
<1>1. IsFiniteSet(Session) /\ Cardinality(Session) = INT_MAX
    BY Numbers, FS_Interval DEF Session
<1>2. InUse \subseteq Session
    BY DEF InUse
<1>3. IsFiniteSet(InUse) /\ Cardinality(InUse) <= Cardinality(Session)
    <2>. HIDE DEF Session, InUse
    <2>. QED BY <1>1, <1>2, FS_Subset
<1>4. Cardinality(InUse) \in Nat
    BY <1>3, FS_CardinalityType
<1>. QED BY <1>1, <1>3, <1>4, Numbers

\* Timers that have expired are all that was in the queue before.
NoNewTimeout ==
    \A i \in 1 .. Len(reply_queue') : reply_queue'[i][1] = "timeout" =>
        \E j \in 1 .. Len(reply_queue) : reply_queue[j] = reply_queue'[i]

\* Taking a message, and sending a reply, put no timer into the queue.
LEMMA NoneNew ==
    ASSUME QueryInv,
           \/ reply_queue' = reply_queue
           \/ reply_queue # << >> /\ reply_queue' = Tail(reply_queue)
           \/ \E q \in Query, status \in Status : SendReply(q, status)
    PROVE  NoNewTimeout
<1>1. reply_queue \in Seq(Entry)
    BY DEF QueryInv, SessionTypes
<1>. HIDE DEF Entry
<1>2. CASE reply_queue' = reply_queue
    BY <1>2 DEF NoNewTimeout
<1>3. CASE reply_queue # << >> /\ reply_queue' = Tail(reply_queue)
    <2>1. /\ Len(reply_queue) \in Nat /\ Len(reply_queue') = Len(reply_queue) - 1
          /\ \A i \in 1 .. Len(reply_queue') : reply_queue'[i] = reply_queue[i + 1]
        BY <1>1, <1>3, TailOf
    <2>2. \A i \in 1 .. Len(reply_queue') : i + 1 \in 1 .. Len(reply_queue)
        BY <2>1
    <2>. QED BY <2>1, <2>2 DEF NoNewTimeout
<1>4. ASSUME NEW q \in Query, NEW status \in Status, SendReply(q, status)
      PROVE  NoNewTimeout
    <2>1. CASE session[q] = LUA_REFNIL
        BY <1>2, <1>4, <2>1 DEF SendReply
    <2>2. CASE session[q] # LUA_REFNIL
        <3>1. PICK e : e = <<"reply", q, status>>
            OBVIOUS
        <3>2. e \in Entry /\ e[1] = "reply"
            BY <3>1 DEF Entry
        <3>3. reply_queue' = Append(reply_queue, e)
            BY <1>4, <2>2, <3>1 DEF SendReply
        <3>4. /\ Len(reply_queue) \in Nat /\ Len(reply_queue') = Len(reply_queue) + 1
              /\ \A i \in 1 .. Len(reply_queue) : reply_queue'[i] = reply_queue[i]
              /\ reply_queue'[Len(reply_queue) + 1] = e
            BY <1>1, <3>2, <3>3
        <3>5. ASSUME NEW i \in 1 .. Len(reply_queue'), reply_queue'[i][1] = "timeout"
              PROVE  \E j \in 1 .. Len(reply_queue) : reply_queue[j] = reply_queue'[i]
            <4>1. i # Len(reply_queue) + 1
                BY <3>2, <3>4, <3>5
            <4>. QED BY <3>4, <4>1
        <3>. QED BY <3>5 DEF NoNewTimeout
    <2>. QED BY <2>1, <2>2
<1>. QED BY <1>2, <1>3, <1>4

\* What is queued about timers stays true as long as timers are closed at most.
LEMMA StillTold ==
    ASSUME QueryInv, CallerInv, NoNewTimeout,
           \A q \in Query : timer'[q] \in {timer[q], "closed"}
    PROVE  \A i \in 1 .. Len(reply_queue') : reply_queue'[i][1] = "timeout" =>
               timer'[reply_queue'[i][2]] \in {"expired", "closed"}
<1>1. ASSUME NEW i \in 1 .. Len(reply_queue'), reply_queue'[i][1] = "timeout"
      PROVE  timer'[reply_queue'[i][2]] \in {"expired", "closed"}
    <2>1. PICK j \in 1 .. Len(reply_queue) : reply_queue[j] = reply_queue'[i]
        BY <1>1 DEF NoNewTimeout
    <2>2. timer[reply_queue[j][2]] \in {"expired", "closed"}
        BY <1>1, <2>1 DEF CallerInv, Timed
    <2>3. reply_queue[j] \in Entry
        BY <2>1 DEF QueryInv, SessionTypes
    <2>4. reply_queue[j][2] \in Query
        BY <1>1, <2>1, <2>3 DEF Entry
    <2>. QED BY <2>1, <2>2, <2>4
<1>. QED BY <1>1

\* The replier does nothing to the sessions of the caller.
LEMMA CallerKept ==
    ASSUME QueryInv, CallerInv, UNCHANGED caller, NoNewTimeout
    PROVE  CallerInv'
<1>1. UNCHANGED <<ref_session, ref_session_count, session, queries, timer, result, resumed,
                  sending>>
    BY DEF caller, sessions
<1>2. CallerTypes' /\ InHand' /\ Awaited' /\ InUse' = InUse
    BY <1>1 DEF CallerInv, CallerTypes, InHand, Awaited, InUse
<1>3. Timed'
    BY <1>1, StillTold DEF CallerInv, Timed
<1>. QED BY <1>1, <1>2, <1>3 DEF CallerInv

\* A new query has a session, or the replier is gone.
LEMMA CallerQueries ==
    ASSUME QueryInv, CallerInv, query
    PROVE  CallerInv'
<1>. PICK q : q = queries + 1
    OBVIOUS
<1>. PICK s : s = lua_ref_session
    OBVIOUS
<1>1. /\ q \in Query /\ queries' = q /\ sending = 0
      /\ session' = [session EXCEPT ![q] = s]
      /\ \/ /\ ref_session' = [ref_session EXCEPT ![s] = q]
            /\ ref_session_count' = ref_session_count + 1
            /\ result' = [result EXCEPT ![q] = "pending"]
            /\ sending' = q
         \/ /\ result' = [result EXCEPT ![q] = "NL_ENOCONTEXT"]
            /\ ref_session' = ref_session /\ ref_session_count' = ref_session_count
            /\ sending' = 0
      /\ timer' = timer /\ resumed' = resumed /\ reply_queue' = reply_queue
    BY DEF query
<1>2. /\ s \in Session /\ ref_session[s] = 0 /\ ~Issued(s)
    BY <1>1, NewSession
<1>3. /\ queries \in Nat /\ 0 \notin Query /\ LUA_REFNIL = 0 /\ q > queries
      /\ \A r \in Query : r > q => r > queries
    BY Numbers DEF QueryInv, SessionTypes, Query, LUA_REFNIL
<1>4. /\ ref_session \in [Session -> Query \cup {0, NOT_A_QUERY}]
      /\ session \in [Query -> Session \cup {LUA_REFNIL}]
      /\ result[q] = "unused" /\ timer[q] = "none"
      /\ CallerTypes
    BY <1>1, <1>3 DEF QueryInv, SessionTypes, CallerInv, InHand
<1>5. CallerTypes'
    BY <1>1, <1>4 DEF CallerTypes
<1>6. /\ session'[q] = s /\ result'[q] \in {"pending", "NL_ENOCONTEXT"}
      /\ \A r \in Query : r # q => session'[r] = session[r] /\ result'[r] = result[r]
    BY <1>1, <1>4 DEF CallerTypes
<1>7. InHand'
    <2>1. ASSUME NEW r \in Query, r > queries'
          PROVE  result'[r] = "unused" /\ timer'[r] = "none"
        BY <1>1, <1>3, <1>6, <2>1 DEF CallerInv, InHand
    <2>2. sending' # 0 =>
              /\ timer'[sending'] = "none"
              /\ session'[sending'] # LUA_REFNIL => result'[sending'] = "pending"
        BY <1>1, <1>3, <1>4 DEF CallerTypes
    <2>. QED BY <2>1, <2>2 DEF InHand
<1>8. Awaited'
    <2>1. ASSUME NEW r \in Query, result'[r] = "pending"
          PROVE  session'[r] \in Session /\ ref_session'[session'[r]] = r
        <3>1. CASE r = q
            BY <1>1, <1>2, <1>4, <1>6, <2>1, <3>1 DEF CallerTypes
        <3>2. CASE r # q
            <4>1. /\ session'[r] = session[r] /\ session[r] \in Session
                  /\ ref_session[session[r]] = r
                BY <1>6, <2>1, <3>2 DEF CallerInv, Awaited
            <4>2. session[r] # s
                BY <1>2, <4>1 DEF Issued
            <4>. QED BY <1>1, <1>4, <4>1, <4>2
        <3>. QED BY <3>1, <3>2
    <2>2. ASSUME NEW t \in Session, ref_session'[t] \in Query
          PROVE  result'[ref_session'[t]] = "pending"
        <3>1. CASE ref_session'[t] = ref_session[t]
            <4>1. result[ref_session[t]] = "pending"
                BY <2>2, <3>1 DEF CallerInv, Awaited
            <4>. QED BY <1>4, <1>6, <2>2, <3>1, <4>1
        <3>2. CASE ref_session'[t] # ref_session[t]
            <4>1. ref_session'[t] = q /\ result' = [result EXCEPT ![q] = "pending"]
                BY <1>1, <1>4, <3>2
            <4>. QED BY <1>1, <1>4, <4>1 DEF CallerTypes
        <3>. QED BY <3>1, <3>2
    <2>. QED BY <2>1, <2>2 DEF Awaited
<1>9. ref_session_count' = Cardinality(InUse')
    <2>1. CASE ref_session' = ref_session /\ ref_session_count' = ref_session_count
        BY <2>1 DEF CallerInv, InUse
    <2>2. CASE /\ ref_session' = [ref_session EXCEPT ![s] = q]
               /\ ref_session_count' = ref_session_count + 1
        <3>1. InUse' = InUse \cup {s} /\ s \notin InUse
            BY <1>1, <1>2, <1>3, <1>4, <2>2 DEF InUse
        <3>2. IsFiniteSet(InUse)
            BY UsedFinite
        <3>3. Cardinality(InUse') = Cardinality(InUse) + 1
            BY <3>1, <3>2, FS_AddElement
        <3>. QED BY <2>2, <3>3 DEF CallerInv
    <2>. QED BY <1>1, <2>1, <2>2
<1>10. Timed'
    <2>1. ASSUME NEW r \in Query, timer'[r] \in {"running", "expired"}
          PROVE  result'[r] = "pending"
        <3>1. timer[r] = timer'[r] /\ r # q
            BY <1>1, <1>4, <2>1
        <3>. QED BY <1>6, <2>1, <3>1 DEF CallerInv, Timed
    <2>. QED BY <1>1, <2>1 DEF CallerInv, Timed
<1>. QED BY <1>5, <1>7, <1>8, <1>9, <1>10 DEF CallerInv

\* What is sent without a query has no session and no result to come.
LEMMA CallerSends ==
    ASSUME QueryInv, CallerInv, send
    PROVE  CallerInv'
<1>. PICK q : q = queries + 1
    OBVIOUS
<1>1. /\ q \in Query /\ queries' = q
      /\ \/ sending' = q /\ result' = [result EXCEPT ![q] = "sent"]
         \/ sending' = 0 /\ result' = [result EXCEPT ![q] = "NL_ENOCONTEXT"]
      /\ ref_session' = ref_session /\ ref_session_count' = ref_session_count
      /\ session' = session /\ timer' = timer /\ resumed' = resumed
      /\ reply_queue' = reply_queue
    BY DEF send, sessions
<1>2. /\ queries \in Nat /\ 0 \notin Query /\ q > queries
      /\ \A r \in Query : r > q => r > queries
    BY Numbers DEF QueryInv, SessionTypes, Query
<1>3. /\ session[q] = LUA_REFNIL /\ result[q] = "unused" /\ timer[q] = "none"
      /\ CallerTypes
    BY <1>1, <1>2 DEF QueryInv, Unmade, CallerInv, InHand
<1>4. CallerTypes'
    BY <1>1, <1>3 DEF CallerTypes
<1>5. \A r \in Query : r # q => result'[r] = result[r]
    BY <1>1, <1>3 DEF CallerTypes
<1>6. result'[q] # "pending"
    BY <1>1, <1>3 DEF CallerTypes
<1>7. InHand'
    <2>1. ASSUME NEW r \in Query, r > queries'
          PROVE  result'[r] = "unused" /\ timer'[r] = "none"
        BY <1>1, <1>2, <1>5, <2>1 DEF CallerInv, InHand
    <2>2. sending' # 0 =>
              /\ timer'[sending'] = "none"
              /\ session'[sending'] # LUA_REFNIL => result'[sending'] = "pending"
        BY <1>1, <1>3
    <2>. QED BY <2>1, <2>2 DEF InHand
<1>8. Awaited'
    <2>1. ASSUME NEW r \in Query, result'[r] = "pending"
          PROVE  session'[r] \in Session /\ ref_session'[session'[r]] = r
        BY <1>1, <1>5, <1>6, <2>1 DEF CallerInv, Awaited
    <2>2. ASSUME NEW t \in Session, ref_session'[t] \in Query
          PROVE  result'[ref_session'[t]] = "pending"
        <3>1. result[ref_session[t]] = "pending"
            BY <1>1, <2>2 DEF CallerInv, Awaited
        <3>2. ref_session[t] # q
            BY <1>3, <3>1
        <3>. QED BY <1>1, <1>5, <2>2, <3>1, <3>2
    <2>. QED BY <2>1, <2>2 DEF Awaited
<1>9. InUse' = InUse
    BY <1>1 DEF InUse
<1>10. Timed'
    <2>1. ASSUME NEW r \in Query, timer'[r] \in {"running", "expired"}
          PROVE  result'[r] = "pending"
        <3>1. timer[r] = timer'[r] /\ r # q
            BY <1>1, <1>3, <2>1
        <3>. QED BY <1>5, <2>1, <3>1 DEF CallerInv, Timed
    <2>. QED BY <1>1, <2>1 DEF CallerInv, Timed
<1>. QED BY <1>1, <1>4, <1>7, <1>8, <1>9, <1>10 DEF CallerInv

\* The push gives a query that has a session a timer, perhaps.
LEMMA CallerPushes ==
    ASSUME QueryInv, CallerInv, push_query
    PROVE  CallerInv'
<1>1. PICK q : q = sending
    OBVIOUS
<1>2. PICK t \in {"none", "running"} :
          /\ t = "running" => session[q] # LUA_REFNIL
          /\ timer' = [timer EXCEPT ![q] = t]
    BY <1>1 DEF push_query
<1>3. /\ q \in Query /\ sending' = 0 /\ ref_session' = ref_session /\ session' = session
      /\ ref_session_count' = ref_session_count /\ queries' = queries /\ result' = result
      /\ resumed' = resumed /\ reply_queue' = reply_queue
    BY <1>1 DEF push_query, sessions, QueryInv, SessionTypes
<1>4. /\ timer[q] = "none" /\ (session[q] # LUA_REFNIL => result[q] = "pending")
      /\ CallerTypes
    <2>1. sending # 0
        BY DEF push_query
    <2>. QED BY <1>1, <2>1 DEF CallerInv, InHand
<1>5. /\ \A r \in Query : timer'[r] = IF r = q THEN t ELSE timer[r]
      /\ CallerTypes'
    BY <1>2, <1>3, <1>4 DEF CallerTypes
<1>6. t = "running" => result[q] = "pending"
    BY <1>2, <1>4
<1>7. InHand'
    <2>1. ASSUME NEW r \in Query, r > queries'
          PROVE  result'[r] = "unused" /\ timer'[r] = "none"
        <3>1. result[r] = "unused" /\ timer[r] = "none"
            BY <1>3, <2>1 DEF CallerInv, InHand
        <3>2. r = q => t = "none"
            BY <1>2, <1>6, <3>1
        <3>. QED BY <1>3, <1>5, <3>1, <3>2
    <2>. QED BY <1>3, <2>1 DEF InHand
<1>8. Awaited' /\ InUse' = InUse
    BY <1>3 DEF CallerInv, Awaited, InUse
<1>9. Timed'
    <2>1. ASSUME NEW r \in Query, timer'[r] \in {"running", "expired"}
          PROVE  result'[r] = "pending"
        BY <1>3, <1>5, <1>6, <2>1 DEF CallerInv, Timed
    <2>2. ASSUME NEW i \in 1 .. Len(reply_queue), reply_queue[i][1] = "timeout"
          PROVE  timer'[reply_queue[i][2]] \in {"expired", "closed"}
        <3>1. timer[reply_queue[i][2]] \in {"expired", "closed"}
            BY <2>2 DEF CallerInv, Timed
        <3>2. reply_queue[i] \in Entry
            BY <2>2 DEF QueryInv, SessionTypes
        <3>3. reply_queue[i][2] \in Query
            BY <2>2, <3>2 DEF Entry
        <3>4. reply_queue[i][2] # q
            BY <1>4, <3>1
        <3>. QED BY <1>5, <3>1, <3>3, <3>4
    <2>. QED BY <1>3, <2>1, <2>2 DEF Timed
<1>. QED BY <1>3, <1>5, <1>7, <1>8, <1>9 DEF CallerInv

\* A timer that expires is queued.
LEMMA CallerTimedout ==
    ASSUME QueryInv, CallerInv, NEW q \in Query, query_timedout(q)
    PROVE  CallerInv'
<1>1. PICK e : e = <<"timeout", q>>
    OBVIOUS
<1>2. /\ timer[q] = "running" /\ timer' = [timer EXCEPT ![q] = "expired"]
      /\ reply_queue' = Append(reply_queue, e)
      /\ ref_session' = ref_session /\ session' = session /\ sending' = sending
      /\ ref_session_count' = ref_session_count /\ queries' = queries /\ result' = result
      /\ resumed' = resumed
    BY <1>1 DEF query_timedout, sessions
<1>3. CallerTypes /\ reply_queue \in Seq(Entry) /\ e \in Entry /\ e[2] = q
    BY <1>1 DEF CallerInv, QueryInv, SessionTypes, Entry
<1>4. /\ \A r \in Query : timer'[r] = IF r = q THEN "expired" ELSE timer[r]
      /\ CallerTypes'
    BY <1>2, <1>3 DEF CallerTypes
<1>5. result[q] = "pending"
    BY <1>2 DEF CallerInv, Timed
<1>6. InHand'
    <2>1. ASSUME NEW r \in Query, r > queries'
          PROVE  result'[r] = "unused" /\ timer'[r] = "none"
        <3>1. result[r] = "unused" /\ timer[r] = "none"
            BY <1>2, <2>1 DEF CallerInv, InHand
        <3>. QED BY <1>2, <1>4, <1>5, <3>1
    <2>2. sending' # 0 =>
              /\ timer'[sending'] = "none"
              /\ session'[sending'] # LUA_REFNIL => result'[sending'] = "pending"
        <3>1. sending # 0 => sending # q /\ sending \in Query
            BY <1>2 DEF CallerInv, InHand, QueryInv, SessionTypes
        <3>. QED BY <1>2, <1>4, <3>1 DEF CallerInv, InHand
    <2>. QED BY <2>1, <2>2 DEF InHand
<1>7. Awaited' /\ InUse' = InUse
    BY <1>2 DEF CallerInv, Awaited, InUse
<1>8. Timed'
    <2>1. ASSUME NEW r \in Query, timer'[r] \in {"running", "expired"}
          PROVE  result'[r] = "pending"
        BY <1>2, <1>4, <1>5, <2>1 DEF CallerInv, Timed
    <2>2. /\ Len(reply_queue) \in Nat /\ Len(reply_queue') = Len(reply_queue) + 1
          /\ \A i \in 1 .. Len(reply_queue) : reply_queue'[i] = reply_queue[i]
          /\ reply_queue'[Len(reply_queue) + 1] = e
        <3>. HIDE DEF Entry
        <3>. QED BY <1>2, <1>3
    <2>3. ASSUME NEW i \in 1 .. Len(reply_queue'), reply_queue'[i][1] = "timeout"
          PROVE  timer'[reply_queue'[i][2]] \in {"expired", "closed"}
        <3>1. CASE i = Len(reply_queue) + 1
            BY <1>3, <1>4, <2>2, <3>1
        <3>2. CASE i \in 1 .. Len(reply_queue)
            <4>1. reply_queue'[i] = reply_queue[i] /\ reply_queue[i][1] = "timeout"
                BY <2>2, <2>3, <3>2
            <4>2. timer[reply_queue[i][2]] \in {"expired", "closed"}
                BY <3>2, <4>1 DEF CallerInv, Timed
            <4>3. reply_queue[i] \in Entry
                BY <1>3, <3>2
            <4>4. reply_queue[i][2] \in Query
                BY <4>1, <4>3 DEF Entry
            <4>. QED BY <1>4, <4>1, <4>2, <4>4
        <3>. QED BY <2>2, <2>3, <3>1, <3>2
    <2>. QED BY <2>1, <2>3 DEF Timed
<1>. QED BY <1>2, <1>4, <1>6, <1>7, <1>8 DEF CallerInv

\* A query ends: its session is freed, and no other one.
LEMMA CallerFrees ==
    ASSUME QueryInv, CallerInv, NEW q \in Query, result[q] = "pending",
           NEW status \in Status \cup {"NL_ETIMEOUT"},
           lua_free_ref_session(q, status), sending = 0, sending' = 0,
           session' = session, queries' = queries, NoNewTimeout,
           resumed' \subseteq (Query \cup {NOT_A_QUERY}) \X Query
    PROVE  CallerInv'
<1>1. PICK s : s = session[q]
    OBVIOUS
<1>2. s \in Session /\ ref_session[s] = q
    BY <1>1 DEF CallerInv, Awaited
<1>3. /\ ref_session' = [ref_session EXCEPT ![s] = 0]
      /\ ref_session_count' = ref_session_count - 1
      /\ result' = [result EXCEPT ![q] = status]
      /\ timer' = [timer EXCEPT ![q] = "closed"]
    BY <1>1 DEF lua_free_ref_session
<1>4. CallerTypes /\ ref_session \in [Session -> Query \cup {0, NOT_A_QUERY}]
      /\ 0 \notin Query /\ q # 0
    BY DEF CallerInv, QueryInv, SessionTypes, Query
<1>5. CallerTypes'
    BY <1>3, <1>4 DEF CallerTypes
<1>6. /\ result'[q] = status /\ status # "pending"
      /\ \A r \in Query : r # q => result'[r] = result[r] /\ timer'[r] = timer[r]
      /\ timer'[q] = "closed"
      /\ \A t \in Session : ref_session'[t] = IF t = s THEN 0 ELSE ref_session[t]
    BY <1>3, <1>4 DEF CallerTypes, Status
<1>7. InHand'
    <2>1. ASSUME NEW r \in Query, r > queries'
          PROVE  result'[r] = "unused" /\ timer'[r] = "none"
        <3>1. result[r] = "unused" /\ timer[r] = "none"
            BY <2>1 DEF CallerInv, InHand
        <3>. QED BY <1>6, <3>1
    <2>. QED BY <2>1 DEF InHand
<1>8. Awaited'
    <2>1. ASSUME NEW r \in Query, result'[r] = "pending"
          PROVE  session'[r] \in Session /\ ref_session'[session'[r]] = r
        <3>1. r # q /\ result[r] = "pending"
            BY <1>6, <2>1
        <3>2. session[r] \in Session /\ ref_session[session[r]] = r
            BY <3>1 DEF CallerInv, Awaited
        <3>3. session[r] # s
            BY <1>2, <3>1, <3>2
        <3>. QED BY <1>6, <3>2, <3>3
    <2>2. ASSUME NEW t \in Session, ref_session'[t] \in Query
          PROVE  result'[ref_session'[t]] = "pending"
        <3>1. t # s /\ ref_session'[t] = ref_session[t]
            BY <1>4, <1>6, <2>2
        <3>2. result[ref_session[t]] = "pending" /\ session[ref_session[t]] = t
            BY <2>2, <3>1 DEF CallerInv, Awaited, QueryInv, Owned
        <3>3. ref_session[t] # q
            BY <1>1, <3>1, <3>2
        <3>. QED BY <1>6, <2>2, <3>1, <3>2, <3>3
    <2>. QED BY <2>1, <2>2 DEF Awaited
<1>9. ref_session_count' = Cardinality(InUse')
    <2>1. InUse' = InUse \ {s} /\ s \in InUse
        BY <1>2, <1>4, <1>6 DEF InUse
    <2>2. IsFiniteSet(InUse)
        BY UsedFinite
    <2>3. Cardinality(InUse') = Cardinality(InUse) - 1
        BY <2>1, <2>2, FS_RemoveElement
    <2>. QED BY <1>3, <2>3 DEF CallerInv
<1>10. Timed'
    <2>1. ASSUME NEW r \in Query, timer'[r] \in {"running", "expired"}
          PROVE  result'[r] = "pending"
        <3>1. r # q
            BY <1>6, <2>1
        <3>. QED BY <1>6, <2>1, <3>1 DEF CallerInv, Timed
    <2>2. \A r \in Query : timer'[r] \in {timer[r], "closed"}
        BY <1>6
    <2>. QED BY <2>1, <2>2, StillTold DEF Timed
<1>. QED BY <1>5, <1>7, <1>8, <1>9, <1>10 DEF CallerInv

\* A reply ends its own query, if that has not ended.
LEMMA CallerReplied ==
    ASSUME QueryInv, CallerInv, response_context_reply
    PROVE  CallerInv'
<1>. PICK by : by = Head(reply_queue)[2]
    OBVIOUS
<1>. PICK status : status = Head(reply_queue)[3]
    OBVIOUS
<1>. PICK of : of = ref_session[session[by]]
    OBVIOUS
<1>1. /\ reply_queue # << >> /\ Head(reply_queue)[1] = "reply" /\ sending = 0
      /\ reply_queue' = Tail(reply_queue)
      /\ session' = session /\ queries' = queries /\ sending' = sending
    BY DEF response_context_reply, ReceiveReply
<1>2. /\ Head(reply_queue) \in Entry
      /\ session[by] # LUA_REFNIL
    BY <1>1, ReplyTaken
<1>3. by \in Query /\ status \in Status
    BY <1>1, <1>2 DEF Entry
<1>4. NoNewTimeout
    BY <1>1, NoneNew
<1>5. session[by] \in Session /\ session[by] \notin Others
    BY <1>2, <1>3 DEF QueryInv, SessionTypes, Owned
<1>6. of # NOT_A_QUERY
    BY <1>5 DEF QueryInv, Owned
<1>7. CASE of \in Query
    <2>1. lua_free_ref_session(of, status) /\ resumed' = resumed \cup {<<of, by>>}
        BY <1>7 DEF response_context_reply
    <2>2. result[of] = "pending"
        BY <1>5, <1>7 DEF CallerInv, Awaited
    <2>3. resumed' \subseteq (Query \cup {NOT_A_QUERY}) \X Query
        BY <1>3, <1>7, <2>1 DEF CallerInv, CallerTypes
    <2>. QED BY <1>1, <1>3, <1>4, <1>7, <2>1, <2>2, <2>3, CallerFrees
<1>8. CASE of \notin Query
    <2>1. /\ ref_session' = ref_session /\ ref_session_count' = ref_session_count
          /\ result' = result /\ timer' = timer /\ resumed' = resumed
        BY <1>6, <1>8 DEF response_context_reply
    <2>2. CallerTypes' /\ InHand' /\ Awaited' /\ InUse' = InUse
        BY <1>1, <2>1 DEF CallerInv, CallerTypes, InHand, Awaited, InUse
    <2>3. \A q \in Query : timer'[q] \in {timer[q], "closed"}
        BY <2>1
    <2>4. Timed'
        BY <1>4, <2>1, <2>3, StillTold DEF CallerInv, Timed
    <2>. QED BY <2>1, <2>2, <2>4 DEF CallerInv
<1>. QED BY <1>7, <1>8

\* A timer that was not closed ends its query, which is pending.
LEMMA CallerEnds ==
    ASSUME QueryInv, CallerInv, response_query_timeout
    PROVE  CallerInv'
<1>. PICK q : q = Head(reply_queue)[2]
    OBVIOUS
<1>1. /\ reply_queue # << >> /\ Head(reply_queue)[1] = "timeout" /\ sending = 0
      /\ reply_queue' = Tail(reply_queue)
      /\ session' = session /\ queries' = queries /\ sending' = sending
      /\ resumed' = resumed
    BY DEF response_query_timeout, ReceiveReply
<1>2. /\ reply_queue \in Seq(Entry) /\ NoNewTimeout
    BY <1>1, NoneNew DEF QueryInv, SessionTypes
<1>3. /\ Head(reply_queue) \in Entry /\ 1 \in 1 .. Len(reply_queue)
      /\ Head(reply_queue) = reply_queue[1]
    <2>. HIDE DEF Entry
    <2>. QED BY <1>1, <1>2, TailOf
<1>4. q \in Query /\ timer[q] \in {"expired", "closed"}
    BY <1>1, <1>3 DEF Entry, CallerInv, Timed
<1>5. CASE timer[q] # "closed" /\ ref_session[session[q]] # 0
    <2>1. lua_free_ref_session(q, "NL_ETIMEOUT")
        BY <1>5 DEF response_query_timeout
    <2>2. result[q] = "pending"
        BY <1>4, <1>5 DEF CallerInv, Timed
    <2>3. resumed' \subseteq (Query \cup {NOT_A_QUERY}) \X Query
        BY <1>1 DEF CallerInv, CallerTypes
    <2>. QED BY <1>1, <1>2, <1>4, <2>1, <2>2, <2>3, CallerFrees
<1>6. CASE ~(timer[q] # "closed" /\ ref_session[session[q]] # 0)
    <2>1. /\ ref_session' = ref_session /\ ref_session_count' = ref_session_count
          /\ result' = result /\ timer' = timer
        BY <1>6 DEF response_query_timeout
    <2>2. CallerTypes' /\ InHand' /\ Awaited' /\ InUse' = InUse
        BY <1>1, <2>1 DEF CallerInv, CallerTypes, InHand, Awaited, InUse
    <2>3. \A r \in Query : timer'[r] \in {timer[r], "closed"}
        BY <2>1
    <2>4. Timed'
        BY <1>2, <2>1, <2>3, StillTold DEF CallerInv, Timed
    <2>. QED BY <2>1, <2>2, <2>4 DEF CallerInv
<1>. QED BY <1>5, <1>6

\* Before the first query only other things have sessions.
LEMMA CallerStarts == QueryInit => CallerInv
<1>. SUFFICES ASSUME QueryInit
              PROVE  CallerInv
    OBVIOUS
<1>1. /\ ref_session = [s \in Session |-> IF s \in Others THEN NOT_A_QUERY ELSE 0]
      /\ ref_session_count = Cardinality(Others) /\ sending = 0 /\ reply_queue = << >>
      /\ timer = [q \in Query |-> "none"] /\ result = [q \in Query |-> "unused"]
      /\ resumed = {}
    BY DEF QueryInit
<1>2. CallerTypes
    BY <1>1 DEF CallerTypes
<1>3. InHand
    BY <1>1 DEF InHand
<1>4. Awaited
    <2>1. 0 \notin Query /\ NOT_A_QUERY \notin Query
        BY DEF Query, NOT_A_QUERY
    <2>. QED BY <1>1, <2>1 DEF Awaited
<1>5. InUse = Others
    BY <1>1, Numbers DEF InUse, NOT_A_QUERY
<1>6. Timed
    BY <1>1 DEF Timed
<1>. QED BY <1>1, <1>2, <1>3, <1>4, <1>5, <1>6 DEF CallerInv

\* Every step keeps what is true of the caller.
LEMMA CallerKeeps ==
    ASSUME QueryInv, CallerInv, [QueryNext]_queryVars
    PROVE  CallerInv'
<1>1. CASE query
    BY <1>1, CallerQueries
<1>2. CASE send
    BY <1>2, CallerSends
<1>3. CASE push_query
    BY <1>3, CallerPushes
<1>4. ASSUME NEW q \in Query, query_timedout(q)
      PROVE  CallerInv'
    BY <1>4, CallerTimedout
<1>5. CASE response_context_reply
    BY <1>5, CallerReplied
<1>6. CASE response_query_timeout
    BY <1>6, CallerEnds
<1>7. ASSUME UNCHANGED <<caller, reply_queue>>
      PROVE  CallerInv'
    BY <1>7, NoneNew, CallerKept
<1>8. ASSUME UNCHANGED caller, NEW q \in Query, NEW status \in Status, SendReply(q, status)
      PROVE  CallerInv'
    BY <1>8, NoneNew, CallerKept
<1>9. CASE destroy
    BY <1>7, <1>9 DEF destroy
<1>10. CASE response_context_query
    <2>1. query_queue # << >> /\ UNCHANGED caller
        BY <1>10 DEF response_context_query
    <2>2. Head(query_queue) \in Query
        BY <2>1, TailOf DEF QueryInv, SessionTypes
    <2>3. UNCHANGED reply_queue \/ SendReply(Head(query_queue), "NL_ENOREPLY")
        BY <1>10 DEF response_context_query
    <2>. QED BY <1>7, <1>8, <2>1, <2>2, <2>3 DEF Status
<1>11. ASSUME NEW q \in Query, NEW status \in {"reply", "NL_ETRANSTYPE"}, reply(q, status)
       PROVE  CallerInv'
    BY <1>8, <1>11 DEF reply, Status
<1>12. CASE query_dropped
    <2>1. /\ query_queue # << >> /\ UNCHANGED caller
          /\ SendReply(Head(query_queue), "NL_ENOREPLY")
        BY <1>12 DEF query_dropped
    <2>2. Head(query_queue) \in Query
        BY <2>1, TailOf DEF QueryInv, SessionTypes
    <2>. QED BY <1>8, <2>1, <2>2 DEF Status
<1>13. CASE UNCHANGED queryVars
    BY <1>7, <1>13 DEF queryVars
<1>. QED BY <1>1, <1>2, <1>3, <1>4, <1>5, <1>6, <1>9, <1>10, <1>11, <1>12, <1>13
         DEF QueryNext

-----------------------------------------------------------------------------
(* The caller and the state of the replier.                                 *)

SessionsInv ==
    /\ QueryInv
    /\ CallerInv
    /\ replier_valid \in BOOLEAN

\* The invariant holds at first.
LEMMA SessionsStart == QueryInit => SessionsInv
<1>1. QueryInit => replier_valid \in BOOLEAN
    BY DEF QueryInit
<1>. QED BY <1>1, InitQuery, CallerStarts DEF SessionsInv

\* Every step keeps it.
LEMMA SessionsStep == SessionsInv /\ [QueryNext]_queryVars => SessionsInv'
<1>. SUFFICES ASSUME SessionsInv, [QueryNext]_queryVars
              PROVE  SessionsInv'
    OBVIOUS
<1>1. replier_valid' \in BOOLEAN
    BY DEF SessionsInv, QueryNext, query, send, push_query, query_timedout,
           response_context_reply, response_query_timeout, response_context_query,
           reply, destroy, query_dropped, queryVars
<1>. QED BY <1>1, StepQuery, CallerKeeps DEF SessionsInv

\* What the invariant says of the sessions in use.
LEMMA SessionsAreExact == SessionsInv => SessionsExact
<1>. SUFFICES ASSUME SessionsInv
              PROVE  SessionsExact
    OBVIOUS
<1>1. ref_session_count = Cardinality({s \in Session : ref_session[s] # 0})
    BY DEF SessionsInv, CallerInv, InUse
<1>2. ref_session_count \in 0 .. INT_MAX
    BY UsedFinite DEF SessionsInv, CallerInv
<1>3. QueryTypeOK
    BY <1>2 DEF SessionsInv, QueryInv, CallerInv, SessionTypes, CallerTypes, Entry,
                QueryTypeOK
<1>4. ASSUME NEW s \in Session \ Others, ref_session[s] # 0
      PROVE  session[ref_session[s]] = s /\ result[ref_session[s]] = "pending"
    <2>1. ref_session[s] \in Query
        BY <1>4 DEF SessionsInv, QueryInv, SessionTypes, Owned
    <2>. QED BY <2>1 DEF SessionsInv, QueryInv, Owned, CallerInv, Awaited
<1>5. \A q \in Query : result[q] = "pending" => ref_session[session[q]] = q
    BY DEF SessionsInv, CallerInv, Awaited
<1>6. \A q \in Query : timer[q] \in {"running", "expired"} => result[q] = "pending"
    BY DEF SessionsInv, CallerInv, Timed
<1>. QED BY <1>1, <1>3, <1>4, <1>5, <1>6 DEF SessionsExact

\* The caller's sessions in use are those of the pending queries and of other things, and
\* as many as are counted, and a query that has ended has no timer left, whatever expires,
\* is answered or ends in between (context_lua.cpp:302-312, 497-516, 557-568).
THEOREM SessionsAreCounted == QuerySpec => []SessionsExact
<1>. QED BY SessionsStart, SessionsStep, SessionsAreExact, PTL DEF QuerySpec
=============================================================================
