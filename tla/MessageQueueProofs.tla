-------------------------- MODULE MessageQueueProofs --------------------------
(***************************************************************************)
(* The ring buffer of message_queue.cpp is a FIFO queue, for every message *)
(* set, every initial capacity and every width of the length type.         *)
(***************************************************************************)
EXTENDS MessageQueue, TLAPS

\* The inductive invariant: the indices are in range and consistent.
Inv == TypeOK /\ RingConsistent

USE QueueAssumption

\* The constructor establishes the invariant.
LEMMA InitInv == Init => Inv
  BY DEF Init, Inv, TypeOK, RingConsistent, Slot, Wrap, Nth

\* push into a buffer with room preserves the invariant.
LEMMA PushInPlaceInv ==
  ASSUME Inv, NEW m \in Message, PushInPlace(m) PROVE Inv'
<1>1. TypeOK'
  BY DEF Inv, TypeOK, PushInPlace, Slot, NextIndex
<1>2. m_tail' = Wrap(m_head' + m_size', m_cap')
  BY DEF Inv, TypeOK, RingConsistent, PushInPlace, NextIndex, Wrap
<1>3. ASSUME NEW i \in 0 .. m_size' - 1 PROVE Nth(i)' \in Message
  <2>1. CASE i = m_size
    BY <2>1 DEF Inv, TypeOK, RingConsistent, PushInPlace, Wrap, Nth
  <2>2. CASE i # m_size
    <3>1. Nth(i) \in Message
      BY <2>2 DEF Inv, TypeOK, RingConsistent, PushInPlace
    <3>2. Wrap(m_head + i, m_cap) # m_tail
      BY <2>2 DEF Inv, TypeOK, RingConsistent, PushInPlace, Wrap
    <3>3. QED
      BY <3>1, <3>2, <1>1 DEF Inv, TypeOK, PushInPlace, Wrap, Nth
  <2>3. QED BY <2>1, <2>2
<1>4. QED BY <1>1, <1>2, <1>3 DEF Inv, RingConsistent

\* The doubled capacity, when accepted, did not wrap around.
LEMMA DoubleCapGrows ==
  ASSUME NEW cap \in 1 .. UintRange - 1, DoubleCap(cap) > cap
  PROVE DoubleCap(cap) = 2 * cap /\ 2 * cap \in 1 .. UintRange - 1
  BY DEF DoubleCap

\* The messages of a full buffer, read by position, are the start of the
\* expanded one.
LEMMA ExpandedContent ==
  ASSUME Inv, NEW m \in Message, PushExpanding(m)
  PROVE /\ m_queue' \in [0 .. m_cap' - 1 -> Slot]
        /\ m_cap' = 2 * m_cap
        /\ m_cap' \in 1 .. UintRange - 1
        /\ m_size = m_cap
        /\ m_queue'[m_size] = m
        /\ \A i \in 0 .. m_size - 1 : m_queue'[i] = Nth(i)
<1> DEFINE new == ExpandedQueue(DoubleCap(m_cap))
<1>1. /\ m_cap' = 2 * m_cap
      /\ m_cap' \in 1 .. UintRange - 1
      /\ DoubleCap(m_cap) = m_cap'
      /\ m_size = m_cap
  BY DoubleCapGrows DEF Inv, TypeOK, PushExpanding
<1>2. ASSUME NEW i \in 0 .. m_size - 1 PROVE Nth(i) \in Message
  BY DEF Inv, RingConsistent
<1>3. /\ new \in [0 .. m_cap' - 1 -> Slot]
      /\ \A i \in 0 .. m_size - 1 : new[i] = Nth(i)
  <2> HIDE DEF Nth
  <2>1. QED BY <1>1, <1>2 DEF ExpandedQueue, Slot, Inv, TypeOK
<1>4. m_queue' = [new EXCEPT ![m_size] = m]
  BY DEF PushExpanding
<1>5. m_size \in 0 .. m_cap' - 1 /\ m_size \in Nat
  BY <1>1 DEF Inv, TypeOK
<1> HIDE DEF new
<1>6. m_queue' \in [0 .. m_cap' - 1 -> Slot] /\ m_queue'[m_size] = m
  BY <1>3, <1>4, <1>5 DEF Slot
<1>7. ASSUME NEW i \in 0 .. m_size - 1 PROVE m_queue'[i] = Nth(i)
  <2>1. i # m_size /\ i \in 0 .. m_cap' - 1
    BY <1>1, <1>5
  <2>2. QED BY <2>1, <1>3, <1>4
<1>8. QED BY <1>1, <1>6, <1>7

\* push into a full buffer preserves the invariant.
LEMMA PushExpandingInv ==
  ASSUME Inv, NEW m \in Message, PushExpanding(m) PROVE Inv'
<1>1. /\ m_head' = 0
      /\ m_size' = m_size + 1
      /\ m_tail' = NextIndex(m_size, DoubleCap(m_cap))
      /\ DoubleCap(m_cap) = m_cap'
      /\ result' = [ok |-> TRUE, message |-> m]
  BY DEF PushExpanding
<1>2. /\ m_size \in 1 .. UintRange - 1
      /\ m_size = m_cap
      /\ m_cap' = 2 * m_size
      /\ m_cap' \in 1 .. UintRange - 1
  BY ExpandedContent DEF Inv, TypeOK
<1>3. TypeOK'
  BY <1>1, <1>2, ExpandedContent DEF TypeOK, NextIndex, Slot
<1>4. m_tail' = Wrap(m_head' + m_size', m_cap')
  BY <1>1, <1>2 DEF Wrap, NextIndex
<1>5. ASSUME NEW i \in 0 .. m_size' - 1 PROVE Nth(i)' \in Message
  <2>1. Nth(i)' = m_queue'[i]
    BY <1>1, <1>2 DEF Nth, Wrap
  <2>2. CASE i = m_size
    BY <2>1, <2>2, ExpandedContent
  <2>3. CASE i # m_size
    <3>1. i \in 0 .. m_size - 1
      BY <2>3, <1>1, <1>2
    <3>2. Nth(i) \in Message
      BY <3>1 DEF Inv, RingConsistent
    <3>3. QED BY <2>1, <3>1, <3>2, ExpandedContent
  <2>4. QED BY <2>2, <2>3
<1>6. QED BY <1>3, <1>4, <1>5 DEF Inv, RingConsistent

\* A pop preserves the invariant.
LEMMA PopInv == ASSUME Inv, Pop PROVE Inv'
<1>1. TypeOK'
  BY DEF Inv, TypeOK, Pop, NextIndex, Slot
<1>2. m_tail' = Wrap(m_head' + m_size', m_cap')
  BY DEF Inv, TypeOK, RingConsistent, Pop, NextIndex, Wrap
<1>3. ASSUME NEW i \in 0 .. m_size' - 1 PROVE Nth(i)' \in Message
  <2>1. i + 1 \in 0 .. m_size - 1
    BY DEF Inv, TypeOK, Pop
  <2>2. Nth(i)' = Nth(i + 1)
    BY <2>1 DEF Inv, TypeOK, Pop, NextIndex, Nth, Wrap
  <2>3. QED BY <2>1, <2>2 DEF Inv, RingConsistent
<1>4. QED BY <1>1, <1>2, <1>3 DEF Inv, RingConsistent

\* The invariant is inductive.
LEMMA NextInv == Inv /\ [Next]_vars => Inv'
<1> SUFFICES ASSUME Inv, [Next]_vars PROVE Inv'
  OBVIOUS
<1>1. ASSUME NEW m \in Message, PushInPlace(m) PROVE Inv'
  BY <1>1, PushInPlaceInv
<1>2. ASSUME NEW m \in Message, PushExpanding(m) PROVE Inv'
  BY <1>2, PushExpandingInv
<1>3. CASE PushRefused
  BY <1>3 DEF Inv, TypeOK, RingConsistent, PushRefused, Nth, Slot
<1>4. CASE Pop
  BY <1>4, PopInv
<1>5. CASE PopEmpty
  BY <1>5 DEF Inv, TypeOK, RingConsistent, PopEmpty, Nth, Slot
<1>6. CASE UNCHANGED vars
  BY <1>6 DEF Inv, TypeOK, RingConsistent, vars, Nth
<1>7. QED
  BY <1>1, <1>2, <1>3, <1>4, <1>5, <1>6 DEF Next

\* Type correctness of the ring buffer.
THEOREM TypeCorrect == Spec => []TypeOK
<1>1. Inv => TypeOK
  BY DEF Inv
<1>2. QED BY InitInv, NextInv, <1>1, PTL DEF Spec

\* Head, tail and size stay consistent, and only pushed messages are ever in
\* the live part of the buffer.
THEOREM RingCorrect == Spec => []RingConsistent
<1>1. Inv => RingConsistent
  BY DEF Inv
<1>2. QED BY InitInv, NextInv, <1>1, PTL DEF Spec
-----------------------------------------------------------------------------
\* The refinement: a push appends to the content, a pop takes its head.

\* The content is a sequence of m_size messages.
ContentFacts == /\ Content \in Seq(Message)
                /\ Len(Content) = m_size
                /\ \A i \in 1 .. m_size : Content[i] = Nth(i - 1)

\* The content, read by position, is a sequence of messages.
LEMMA ContentSeq == Inv => ContentFacts
<1> SUFFICES ASSUME Inv PROVE ContentFacts
  OBVIOUS
<1>1. ASSUME NEW i \in 1 .. m_size PROVE Nth(i - 1) \in Message
  BY DEF Inv, TypeOK, RingConsistent
<1>2. m_size \in Nat
  BY DEF Inv, TypeOK
<1> HIDE DEF Nth
<1>3. QED BY <1>1, <1>2 DEF Content, ContentFacts

\* The same in the next state.
LEMMA ContentSeqNext == Inv' => ContentFacts'
  BY ContentSeq, PTL

\* Two sequences of the same length with the same elements are equal.
LEMMA SeqEqual ==
  ASSUME NEW S, NEW s \in Seq(S), NEW t \in Seq(S), Len(s) = Len(t),
         \A i \in 1 .. Len(s) : s[i] = t[i]
  PROVE s = t
  OBVIOUS

\* Appending to a sequence, position by position.
LEMMA AppendByPosition ==
  ASSUME NEW S, NEW s \in Seq(S), NEW t \in Seq(S), NEW m \in S,
         Len(t) = Len(s) + 1,
         \A i \in 1 .. Len(s) : t[i] = s[i],
         t[Len(s) + 1] = m
  PROVE t = Append(s, m)
  BY SeqEqual

\* Removing the head of a sequence, position by position.
LEMMA TailByPosition ==
  ASSUME NEW S, NEW s \in Seq(S), NEW t \in Seq(S), s # << >>,
         Len(t) = Len(s) - 1,
         \A i \in 1 .. Len(t) : t[i] = s[i + 1]
  PROVE t = Tail(s)
  BY SeqEqual

\* A push into a buffer with room is an abstract push.
LEMMA PushInPlaceFifo ==
  ASSUME Inv, NEW m \in Message, PushInPlace(m) PROVE Fifo!Push(m)
<1>1. ContentFacts /\ ContentFacts'
  BY PushInPlaceInv, ContentSeq, ContentSeqNext
<1>2. m_size \in Nat /\ m_size' = m_size + 1
  BY DEF Inv, TypeOK, PushInPlace
<1>3. ASSUME NEW i \in 1 .. m_size PROVE Content'[i] = Content[i]
  <2>1. Content[i] = Nth(i - 1) /\ Content'[i] = Nth(i - 1)'
    BY <1>1, <1>2 DEF ContentFacts
  <2>2. Wrap(m_head + (i - 1), m_cap) # m_tail
    BY <1>2 DEF Inv, TypeOK, RingConsistent, PushInPlace, Wrap
  <2>3. Nth(i - 1)' = Nth(i - 1)
    BY <2>2, <1>2 DEF Inv, TypeOK, PushInPlace, Nth, Wrap
  <2>4. QED BY <2>1, <2>3
<1>4. Content'[m_size + 1] = m
  <2> PICK n \in Nat : n = m_size
    BY <1>2
  <2>1. Content'[n + 1] = Nth(n)'
    BY <1>1, <1>2 DEF ContentFacts
  <2>2. QED
    BY <2>1, <1>2 DEF Inv, TypeOK, RingConsistent, PushInPlace, Nth, Wrap
<1>5. Content' = Append(Content, m)
  BY <1>1, <1>2, <1>3, <1>4, AppendByPosition DEF ContentFacts
<1>6. QED BY <1>5 DEF Fifo!Push, PushInPlace

\* A push that expands the buffer is an abstract push.
LEMMA PushExpandingFifo ==
  ASSUME Inv, NEW m \in Message, PushExpanding(m) PROVE Fifo!Push(m)
<1>1. ContentFacts /\ ContentFacts'
  BY PushExpandingInv, ContentSeq, ContentSeqNext
<1>2. /\ m_size \in Nat /\ m_size' = m_size + 1
      /\ m_head' = 0 /\ m_cap' = 2 * m_size /\ m_size > 0
      /\ \A i \in 0 .. m_size - 1 : m_queue'[i] = Nth(i)
      /\ m_queue'[m_size] = m
      /\ result' = [ok |-> TRUE, message |-> m]
  <2>1. m_size \in Nat /\ m_size' = m_size + 1 /\ m_head' = 0
        /\ result' = [ok |-> TRUE, message |-> m]
    BY DEF Inv, TypeOK, PushExpanding
  <2>2. m_cap \in Nat /\ m_cap > 0
    BY DEF Inv, TypeOK
  <2>3. QED BY <2>1, <2>2, ExpandedContent
<1>3. ASSUME NEW i \in 0 .. m_size PROVE Nth(i)' = m_queue'[i]
  BY <1>2 DEF Nth, Wrap
<1>4. ASSUME NEW i \in 1 .. m_size PROVE Content'[i] = Content[i]
  <2>1. Content[i] = Nth(i - 1) /\ Content'[i] = Nth(i - 1)'
    BY <1>1, <1>2 DEF ContentFacts
  <2>2. i - 1 \in 0 .. m_size - 1 /\ i - 1 \in 0 .. m_size
    BY <1>2
  <2>3. QED BY <2>1, <2>2, <1>2, <1>3
<1>5. Content'[m_size + 1] = m
  <2> PICK n \in Nat : n = m_size
    BY <1>2
  <2>1. Content'[n + 1] = Nth(n)'
    BY <1>1, <1>2 DEF ContentFacts
  <2>2. QED BY <2>1, <1>2, <1>3
<1>6. Content' = Append(Content, m)
  BY <1>1, <1>2, <1>4, <1>5, AppendByPosition DEF ContentFacts
<1>7. QED BY <1>2, <1>6 DEF Fifo!Push

\* A pop is an abstract pop: it returns the oldest message.
LEMMA PopFifo == ASSUME Inv, Pop PROVE Fifo!Pop
<1>1. ContentFacts /\ ContentFacts'
  BY PopInv, ContentSeq, ContentSeqNext
<1>2. m_size \in Nat /\ m_size > 0 /\ m_size' = m_size - 1
  BY DEF Inv, TypeOK, Pop
<1>3. ASSUME NEW i \in 1 .. m_size' PROVE Content'[i] = Content[i + 1]
  <2>1. Content'[i] = Nth(i - 1)' /\ Content[i + 1] = Nth(i)
    BY <1>1, <1>2 DEF ContentFacts
  <2>2. Nth(i - 1)' = Nth(i)
    BY <1>2 DEF Inv, TypeOK, Pop, NextIndex, Nth, Wrap
  <2>3. QED BY <2>1, <2>2
<1>4. Content # << >>
  BY <1>1, <1>2 DEF ContentFacts
<1>5. Content' = Tail(Content)
  BY <1>1, <1>2, <1>3, <1>4, TailByPosition DEF ContentFacts
<1>6. Head(Content) = m_queue[m_head]
  <2>1. Content[1] = Nth(0)
    BY <1>1, <1>2 DEF ContentFacts
  <2>2. QED BY <2>1, <1>1, <1>4 DEF Inv, TypeOK, Nth, Wrap, ContentFacts
<1>7. QED BY <1>4, <1>5, <1>6 DEF Fifo!Pop, Pop

\* Every step of the ring buffer is a step of the FIFO queue or a stutter.
LEMMA StepFifo ==
  ASSUME Inv, [Next]_vars PROVE [Fifo!Next]_<<Content, result>>
<1>1. ASSUME NEW m \in Message, PushInPlace(m) PROVE Fifo!Next
  BY <1>1, PushInPlaceFifo DEF Fifo!Next
<1>2. ASSUME NEW m \in Message, PushExpanding(m) PROVE Fifo!Next
  BY <1>2, PushExpandingFifo DEF Fifo!Next
<1>3. CASE PushRefused
  <2>1. Content' = Content
    BY <1>3 DEF PushRefused, Content, Nth
  <2>2. 2 * Len(Content) >= UintRange
    BY <1>3, ContentSeq DEF ContentFacts, PushRefused, Inv, TypeOK, DoubleCap
  <2>3. QED
    BY <1>3, <2>1, <2>2 DEF PushRefused, Fifo!PushRefused, Fifo!Next
<1>4. CASE Pop
  BY <1>4, PopFifo DEF Fifo!Next
<1>5. CASE PopEmpty
  <2>1. Content' = Content
    BY <1>5 DEF PopEmpty, Content, Nth
  <2>2. Content = << >>
    BY <1>5, ContentSeq DEF ContentFacts, PopEmpty, Inv, TypeOK
  <2>3. QED
    BY <1>5, <2>1, <2>2 DEF PopEmpty, Fifo!PopEmpty, Fifo!Next
<1>6. CASE UNCHANGED vars
  BY <1>6 DEF vars, Content, Nth
<1>7. QED
  BY <1>1, <1>2, <1>3, <1>4, <1>5, <1>6 DEF Next

\* The ring buffer implements the FIFO queue.
THEOREM Refinement == Spec => FifoSpec
<1>1. Init => Fifo!Init
  <2>1. Init => Content = << >>
    BY InitInv, ContentSeq DEF Init, ContentFacts
  <2>2. QED BY <2>1 DEF Init, Fifo!Init
<1>2. Inv /\ [Next]_vars => [Fifo!Next]_<<Content, result>>
  BY StepFifo
<1>3. QED BY <1>1, <1>2, InitInv, NextInv, PTL DEF Spec, FifoSpec, Fifo!Spec
=============================================================================
