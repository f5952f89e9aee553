-------------------------- MODULE MCStateIntegrity --------------------------
(* StateIntegrity for TLC: operators and symbols are interchangeable.      *)
EXTENDS StateIntegrity, TLC

MCSymmetry == Permutations(Symbols) \cup Permutations(Operators)
=============================================================================
