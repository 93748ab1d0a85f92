------------------------- MODULE MCVertexTokenCache -------------------------
(* A small instance of VertexTokenCache; a second stands for the whole skew. *)
EXTENDS VertexTokenCache, TLC

CONSTANTS p1, p2, p3, k1, k2

Callers == {p1, p2, p3}
Keys == {k1, k2}

\* Calls and keys are interchangeable.
Symmetry == Permutations(Callers) \cup Permutations(Keys)

\* A lifetime beyond the skew, one within it, and one left unreported.
Grants == {[reported |-> 2, life |-> 2], [reported |-> 1, life |-> 1], [reported |-> 0, life |-> 3]}
=============================================================================
