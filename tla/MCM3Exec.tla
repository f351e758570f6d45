------------------------------ MODULE MCM3Exec ------------------------------
(* A module of two functions that compile and one that does not. *)
EXTENDS M3Exec

MCFrameSlots == [fn \in Functions |-> IF fn = "f" THEN 2 ELSE 3]
MCTable == <<"g", "null">>
\* Loop 1 around loop 2, and loop 3 after them.
MCOuter == <<0, 1, 0>>
=============================================================================
