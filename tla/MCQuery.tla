------------------------------ MODULE MCQuery ------------------------------
(* Instances of Query for TLC. *)
EXTENDS Query
=============================================================================
