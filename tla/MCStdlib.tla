------------------------------ MODULE MCStdlib ------------------------------
(* Instances of Stdlib, and with it of Iterator, for TLC. *)
EXTENDS Stdlib
=============================================================================
