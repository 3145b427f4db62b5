------------------------------- MODULE MCTokens -------------------------------
(* Instances of TokenCache for TLC. *)
EXTENDS TokenCache, TLC

SkewsDef == {-6, 0, 2}
Symmetry == Permutations(Callers)
=============================================================================
