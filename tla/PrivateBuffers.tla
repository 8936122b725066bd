---------------------------- MODULE PrivateBuffers ----------------------------
(***************************************************************************)
(* What buffer.cpp promises to whoever holds a buffer_t: a value of his    *)
(* own.  A copy is as good as a new buffer with the same bytes, and what   *)
(* the holder of one does never shows in another.                          *)
(***************************************************************************)
EXTENDS Naturals, Sequences

CONSTANTS Ref, Byte, NULL

VARIABLE value        \* of each buffer_t: its bytes, or NULL

Valid == {r \in Ref : value[r] # NULL}

Init == value = [r \in Ref |-> NULL]

Create(r) == /\ r \notin Valid
             /\ value' = [value EXCEPT ![r] = << >>]

Copy(r, s) == /\ r \notin Valid /\ s \in Valid
              /\ value' = [value EXCEPT ![r] = value[s]]

Drop(r) == r \in Valid /\ value' = [value EXCEPT ![r] = NULL]

Put(r, b) == r \in Valid /\ value' = [value EXCEPT ![r] = Append(@, b)]

Concat(r, s) == /\ {r, s} \subseteq Valid
                /\ value' = [value EXCEPT ![r] = @ \o value[s]]

Clear(r) == r \in Valid /\ value' = [value EXCEPT ![r] = << >>]

\* Without the bytes from the n-th to the m-th.
Cut(r, n, m) == /\ r \in Valid /\ n <= m
                /\ value' = [value EXCEPT ![r] =
                        SubSeq(@, 1, n - 1) \o SubSeq(@, m + 1, Len(@))]

\* The first n bytes go to a buffer of their own.
Split(r, s, n) ==
    /\ r \in Valid /\ s \notin Valid
    /\ value' = [value EXCEPT ![s] = SubSeq(value[r], 1, n),
                              ![r] = SubSeq(@, n + 1, Len(@))]

Next ==
    \E r \in Ref :
        \/ Create(r)
        \/ Drop(r)
        \/ Clear(r)
        \/ \E b \in Byte : Put(r, b)
        \/ \E s \in Ref : Copy(r, s) \/ Concat(r, s)
        \/ r \in Valid /\ \E n, m \in 1 .. Len(value[r]) : Cut(r, n, m)
        \/ r \in Valid /\ \E s \in Ref, n \in 0 .. Len(value[r]) : Split(r, s, n)

Spec == Init /\ [][Next]_value
=============================================================================
