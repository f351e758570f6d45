--------------------------- MODULE MCVelumKernel ---------------------------
(***************************************************************************)
(* Model values for VelumKernel.                                           *)
(***************************************************************************)
EXTENDS VelumKernel, TLC

Symmetric == Permutations(Fds)
=============================================================================
