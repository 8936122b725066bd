---------------------------- MODULE MCContextWait ----------------------------
(* Models of ContextWait: who may wait for whom.                              *)
EXTENDS ContextWait, TLC

CONSTANTS a, b, e

\* One context waits for one other.
One == {<<a, b>>}

\* One context waits for two, whose ends are independent.
Two == {<<a, b>>, <<a, e>>}

\* The two are interchangeable.
Symmetry == Permutations({b, e})

\* Waits without a timeout, for a counterexample that needs none.
NoTimers == \A w \in Wait : wait[w].timer # "unset"
=============================================================================
