------------------------------- MODULE MCPool -------------------------------
(* Instances of Pool for TLC. *)
EXTENDS Pool

Symmetry == Permutations(Callers) \cup Permutations(Conns) \cup Permutations(Chans)
=============================================================================
