---------------------------- MODULE MCStmtCache ----------------------------
(* Instances of StmtCache for TLC. *)
EXTENDS StmtCache

Symmetry == Permutations(SQLs) \cup Permutations(Backends)
=============================================================================
