--------------------------- MODULE MCWasmSandbox ---------------------------
(***************************************************************************)
(* Model values for WasmSandbox.                                           *)
(***************************************************************************)
EXTENDS WasmSandbox, TLC

Symmetric == Permutations(Pages)
=============================================================================
