------------------------------ MODULE MCM3Load ------------------------------
(* The names of a module are exchangeable. *)
EXTENDS M3Load

Symmetric == Permutations(Texts)
=============================================================================
