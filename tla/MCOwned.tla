------------------------------- MODULE MCOwned -------------------------------
(* Instances of Owned for TLC. *)
EXTENDS Owned, TLC

CONSTANTS c1, c2, c3, c4, k1, k2

\* Calls, and pairs of a provider and a model, are interchangeable.
Symmetry == Permutations(Callers) \cup Permutations(Keys)
===========================================================================
